---- MODULE Spec2Model ----
(***************************************************************************)
(* Global Classrooms API: role based access control (core/permissions.py), *)
(* the view handlers that consult it (core/views.py), the wallet nonce     *)
(* verification (core/utils.py), the e-mail OTP login and the donation     *)
(* endpoints.                                                              *)
(***************************************************************************)
EXTENDS Integers, Sequences, FiniteSets, TLC

(***************************************************************************)
(* Entities                                                                *)
(***************************************************************************)
Users == {"alice", "bob", "carol"}
Anonymous == "anonymous"
Actors == Users \cup {Anonymous}
\* the ids of School rows; S3 is the id the next created school takes
Schools == {"S1", "S2", "S3"}
InitialSchools == {"S1", "S2"}
Projects == {"P1"}
NULL == "null"
USER_ROLES == {"student", "teacher", "school_admin", "super_admin", "donor"}
RoleValues == USER_ROLES \cup {NULL}
SAFE_METHODS == {"GET", "HEAD", "OPTIONS"}
WriteMethods == {"PUT", "PATCH", "DELETE"}
Names == {"n0", "n1"}

VARIABLES
    role,             \* User.role
    is_staff,         \* User.is_staff
    memberships,      \* SchoolMembership rows of each user, in primary key order
    schools,          \* School rows: admin, name, city (with its country)
    projects,         \* Project rows: created_by, lead_school, title
    participations,   \* ProjectParticipation rows (project, school)
    participants,     \* ProjectParticipant rows (project, student)
    donations,        \* Donation rows, in creation order
    now,              \* timezone.now(), in minutes
    wallet_users,     \* wallet_address of the User rows registered by wallet
    wallet_nonces,    \* WalletNonce rows, one per wallet address
    next_nonce,       \* source of fresh nonce values
    verify_req,       \* verify_wallet_signature calls in progress
    consumed,         \* nonces deleted by a verification that returned True
    wallet_logins,    \* the requests WalletLoginView answered with tokens, in order
    otps,             \* EmailLoginOTP rows, in creation order
    otp_req,          \* EmailLoginVerifyView requests in progress
    otp_logins,       \* token pairs issued by EmailLoginVerifyView per OTP row
    email_users,      \* email of the User rows created by email login
    updates,          \* ProjectUpdate rows, in creation order
    classes,          \* Class rows: (school, name)
    profiles,         \* TeacherProfile and StudentProfile rows: kind, user, school
    participant_class, \* ProjectParticipant.student_class.school of each row
    goals,            \* ProjectGoal rows: project, is_completed
    files,            \* ProjectFile rows: project, description
    certificates,     \* Certificate rows: recipient, issued_by, title
    user_emails,      \* User.email of the rows created by registration, in creation order
    last              \* the request handled last and its response

authVars == <<role, is_staff, memberships, schools, projects, participations, participants>>
donationVars == <<donations>>
walletVars == <<wallet_users, wallet_nonces, next_nonce, verify_req, consumed, wallet_logins>>
otpVars == <<otps, otp_req, otp_logins, email_users>>
contentVars == <<updates, classes, profiles, participant_class, goals, files>>
recordVars == <<certificates, user_emails>>
vars == <<role, is_staff, memberships, schools, projects, participations, participants,
          donations, now, wallet_users, wallet_nonces, next_nonce, verify_req,
          consumed, wallet_logins, otps, otp_req, otp_logins, email_users, updates, classes, profiles,
          participant_class, goals, files, certificates, user_emails, last>>

(***************************************************************************)
(* Objects handed to has_object_permission, and the attributes the         *)
(* permission classes probe with hasattr.                                  *)
(***************************************************************************)
\* the entry of a school id that no School row carries yet
NoSchool == [admin |-> NULL, name |-> NULL, city |-> NULL]
ProjectObj(p) == [kind |-> "project", id |-> p]
SchoolObj(s) == [kind |-> "school", id |-> s]
DonationObj(d) == [kind |-> "donation", id |-> d]
ParticipantObj(p, u) == [kind |-> "participant", id |-> <<p, u>>]
\* a ProjectGoal or ProjectFile row, with the project it belongs to
GoalObj(g, p) == [kind |-> "goal", id |-> g, project |-> p]
FileObj(f, p) == [kind |-> "file", id |-> f, project |-> p]
CertificateObj(k) == [kind |-> "certificate", id |-> k]

HasAttr(o, a) ==
    CASE o.kind = "project"  -> a \in {"created_by", "lead_school", "participating_schools"}
      [] o.kind = "school"   -> a \in {"admin"}
      [] o.kind = "donation" -> a \in {"payment_status"}
      [] o.kind = "participant" -> a \in {"project", "student", "student_class", "added_by"}
      [] o.kind = "goal" -> a \in {"project", "description", "is_completed"}
      [] o.kind = "file" -> a \in {"project", "file", "description"}
      [] o.kind = "certificate" -> a \in {"recipient", "issued_by", "project"}
      [] OTHER               -> FALSE

is_authenticated(u) == u # Anonymous

\* user.school_memberships.filter(is_active=True).values_list('school', flat=True)
ActiveSchoolsOf(u) ==
    {memberships[u][i].school : i \in {j \in DOMAIN memberships[u] : memberships[u][j].is_active}}

\* project.participating_schools: every school with a ProjectParticipation row
ParticipatingSchools(p) == {s \in Schools : participations[<<p, s>>] # "none"}

\* user.managed_schools
ManagedSchools(u) == {s \in Schools : schools[s].admin = u}

\* getattr(obj, a) for the attributes the permission classes read
Attr(o, a) ==
    CASE o.kind = "project" /\ a = "created_by"  -> projects[o.id].created_by
      [] o.kind = "project" /\ a = "lead_school" -> projects[o.id].lead_school
      [] o.kind = "school" /\ a = "admin"        -> schools[o.id].admin
      [] o.kind = "donation" /\ a = "payment_status" -> donations[o.id].payment_status
      [] o.kind = "participant" /\ a = "project" -> o.id[1]
      [] o.kind \in {"goal", "file"} /\ a = "project" -> o.project
      [] o.kind = "certificate" /\ a = "recipient" -> certificates[o.id].recipient
      [] o.kind = "certificate" /\ a = "issued_by" -> certificates[o.id].issued_by
      [] OTHER -> NULL

\* "project = obj.project / elif hasattr(obj, 'created_by'): project = obj"
ProjectOf(o) ==
    IF HasAttr(o, "project") THEN Attr(o, "project")
    ELSE IF HasAttr(o, "created_by") THEN o.id
    ELSE NULL

(***************************************************************************)
(* core/permissions.py.  A class that does not define one of the two       *)
(* methods inherits BasePermission's, which returns True.                  *)
(***************************************************************************)
IsOwnerOrReadOnly_has_permission(u, m) == TRUE

IsOwnerOrReadOnly_has_object_permission(u, m, o) ==
    IF m \in SAFE_METHODS THEN TRUE
    ELSE IF HasAttr(o, "created_by") THEN Attr(o, "created_by") = u
    ELSE IF HasAttr(o, "user") THEN Attr(o, "user") = u
    ELSE FALSE

IsSchoolAdminOrReadOnly_has_permission(u, m) == TRUE

\* mutant: active members of the school may write as well
IsSchoolAdminOrReadOnly_MembersToo(u, m, o) ==
    IF m \in SAFE_METHODS THEN is_authenticated(u)
    ELSE IF is_authenticated(u) /\ is_staff[u] THEN TRUE
    ELSE IF HasAttr(o, "admin") THEN Attr(o, "admin") = u \/ (is_authenticated(u) /\ o.id \in ActiveSchoolsOf(u))
    ELSE FALSE

IsSchoolAdminOrReadOnly_has_object_permission(u, m, o) ==
    IF m \in SAFE_METHODS THEN is_authenticated(u)
    ELSE IF is_authenticated(u) /\ is_staff[u] THEN TRUE
    ELSE IF HasAttr(o, "admin") THEN Attr(o, "admin") = u
    ELSE IF HasAttr(o, "school") THEN schools[Attr(o, "school")].admin = u
    ELSE FALSE

IsTeacherOrReadOnly_has_permission(u, m) ==
    IF ~is_authenticated(u) THEN FALSE
    ELSE IF m \in SAFE_METHODS THEN TRUE
    ELSE IF is_staff[u] THEN TRUE
    ELSE role[u] \in {"teacher", "school_admin"}

IsTeacherOrReadOnly_has_object_permission(u, m, o) ==
    IF m \in SAFE_METHODS THEN is_authenticated(u)
    ELSE IF is_staff[u] THEN TRUE
    ELSE IF HasAttr(o, "school") /\ schools[Attr(o, "school")].admin = u THEN TRUE
    ELSE IF HasAttr(o, "user") /\ Attr(o, "user") = u THEN TRUE
    ELSE IF HasAttr(o, "school") THEN Attr(o, "school") \in ActiveSchoolsOf(u)
    ELSE FALSE

IsStudentOrTeacherForSchool_has_permission(u, m) == is_authenticated(u)

IsStudentOrTeacherForSchool_has_object_permission(u, m, o) ==
    IF is_staff[u] THEN TRUE
    ELSE IF HasAttr(o, "user") /\ Attr(o, "user") = u THEN TRUE
    ELSE IF HasAttr(o, "school") /\ schools[Attr(o, "school")].admin = u THEN TRUE
    ELSE IF role[u] \in {"teacher", "school_admin"} /\ HasAttr(o, "school")
         THEN Attr(o, "school") \in ActiveSchoolsOf(u)
    ELSE FALSE

IsProjectCreatorOrCollaborator_has_permission(u, m) == is_authenticated(u)

IsProjectCreatorOrCollaborator_has_object_permission(u, m, o) ==
    IF m \in SAFE_METHODS THEN TRUE
    ELSE IF is_staff[u] THEN TRUE
    ELSE IF HasAttr(o, "created_by") /\ Attr(o, "created_by") = u THEN TRUE
    ELSE IF HasAttr(o, "lead_school") /\ schools[Attr(o, "lead_school")].admin = u THEN TRUE
    ELSE IF HasAttr(o, "participating_schools")
         THEN ManagedSchools(u) \cap ParticipatingSchools(o.id) # {}
    ELSE FALSE

IsProjectOwnerOrParticipant_has_permission(u, m) == TRUE

\* mutant: the lead school membership check is missing
IsProjectOwnerOrParticipant_NoLeadSchool(u, m, o) ==
    IF m \in SAFE_METHODS THEN TRUE
    ELSE IF projects[o.id].created_by = u THEN TRUE
    ELSE IF ActiveSchoolsOf(u) \cap ParticipatingSchools(o.id) # {} THEN TRUE
    ELSE FALSE

\* Only used on Project objects (ProjectViewSet).
IsProjectOwnerOrParticipant_has_object_permission(u, m, o) ==
    IF m \in SAFE_METHODS THEN TRUE
    ELSE IF projects[o.id].created_by = u THEN TRUE
    ELSE IF projects[o.id].lead_school \in ActiveSchoolsOf(u) THEN TRUE
    ELSE IF ActiveSchoolsOf(u) \cap ParticipatingSchools(o.id) # {} THEN TRUE
    ELSE FALSE

IsSchoolMember_has_permission(u, m) == is_authenticated(u)

IsSchoolMember_has_object_permission(u, m, o) == TRUE

CanViewSchoolData_has_permission(u, m) == is_authenticated(u)

\* "school = obj.school / obj.lead_school / obj (the School itself)"
SchoolOfForView(o) ==
    IF HasAttr(o, "school") THEN Attr(o, "school")
    ELSE IF HasAttr(o, "lead_school") THEN Attr(o, "lead_school")
    ELSE IF HasAttr(o, "admin") THEN o.id
    ELSE NULL

CanViewSchoolData_has_object_permission(u, m, o) ==
    IF is_staff[u] THEN TRUE
    ELSE IF SchoolOfForView(o) # NULL
         THEN IF schools[SchoolOfForView(o)].admin = u THEN TRUE
              ELSE SchoolOfForView(o) \in ActiveSchoolsOf(u)
    ELSE FALSE

is_school_admin(u, s) == schools[s].admin = u \/ is_staff[u]

is_school_member(u, s) == s \in ActiveSchoolsOf(u)

can_user_access_school(u, s) ==
    IF is_staff[u] THEN TRUE
    ELSE IF schools[s].admin = u THEN TRUE
    ELSE is_school_member(u, s)

can_user_modify_school(u, s) ==
    IF is_staff[u] THEN TRUE ELSE schools[s].admin = u

CanCreateSchool_has_permission(u, m) ==
    IF ~is_authenticated(u) THEN FALSE
    ELSE IF is_staff[u] THEN TRUE
    ELSE IF role[u] = "super_admin" THEN TRUE
    ELSE IF role[u] \in {"school_admin", "teacher"} THEN TRUE
    ELSE FALSE

CanCreateSchool_has_object_permission(u, m, o) == TRUE

CanCreateProject_has_permission(u, m) ==
    IF ~is_authenticated(u) THEN FALSE
    ELSE IF is_staff[u] THEN TRUE
    ELSE IF role[u] = "super_admin" THEN TRUE
    ELSE IF role[u] = "school_admin" THEN TRUE
    ELSE IF role[u] = "teacher" THEN TRUE
    ELSE FALSE

CanCreateProject_has_object_permission(u, m, o) == TRUE

\* "school = obj.school / obj (the School itself)"
SchoolOfForManage(o) ==
    IF HasAttr(o, "school") THEN Attr(o, "school")
    ELSE IF HasAttr(o, "admin") THEN o.id
    ELSE NULL

CanManageSchoolContent_has_permission(u, m) ==
    IF ~is_authenticated(u) THEN FALSE
    ELSE IF is_staff[u] THEN TRUE
    ELSE role[u] \in {"school_admin", "teacher"}

CanManageSchoolContent_has_object_permission(u, m, o) ==
    IF is_staff[u] THEN TRUE
    ELSE IF SchoolOfForManage(o) = NULL THEN FALSE
    ELSE IF schools[SchoolOfForManage(o)].admin = u THEN TRUE
    ELSE IF role[u] = "teacher" THEN SchoolOfForManage(o) \in ActiveSchoolsOf(u)
    ELSE FALSE

CanJoinProject_has_permission(u, m) ==
    IF ~is_authenticated(u) THEN FALSE
    ELSE IF is_staff[u] THEN TRUE
    ELSE ActiveSchoolsOf(u) # {}

CanJoinProject_has_object_permission(u, m, o) == TRUE

CanManageProjectContent_has_permission(u, m) ==
    IF ~is_authenticated(u) THEN FALSE
    ELSE IF is_staff[u] THEN TRUE
    ELSE ActiveSchoolsOf(u) # {}

CanManageProjectContent_has_object_permission(u, m, o) ==
    IF is_staff[u] THEN TRUE
    ELSE IF ProjectOf(o) = NULL THEN FALSE
    ELSE IF projects[ProjectOf(o)].created_by = u THEN TRUE
    ELSE IF projects[ProjectOf(o)].lead_school \in ActiveSchoolsOf(u) THEN TRUE
    ELSE ActiveSchoolsOf(u) \cap ParticipatingSchools(ProjectOf(o)) # {}

CanUpdateProjectProgress_has_permission(u, m) ==
    IF ~is_authenticated(u) THEN FALSE
    ELSE IF is_staff[u] THEN TRUE
    ELSE ActiveSchoolsOf(u) # {}

CanUpdateProjectProgress_has_object_permission(u, m, o) ==
    IF is_staff[u] THEN TRUE
    ELSE IF ProjectOf(o) = NULL THEN FALSE
    ELSE IF projects[ProjectOf(o)].created_by = u THEN TRUE
    ELSE IF projects[ProjectOf(o)].lead_school \in ActiveSchoolsOf(u) THEN TRUE
    ELSE ActiveSchoolsOf(u) \cap ParticipatingSchools(ProjectOf(o)) # {}

CanManageProjectStructure_has_permission(u, m) ==
    IF ~is_authenticated(u) THEN FALSE
    ELSE IF is_staff[u] THEN TRUE
    ELSE role[u] \in {"teacher", "school_admin", "super_admin"}

CanManageProjectStructure_has_object_permission(u, m, o) ==
    IF is_staff[u] THEN TRUE
    ELSE IF ProjectOf(o) = NULL THEN FALSE
    ELSE IF projects[ProjectOf(o)].created_by = u THEN TRUE
    ELSE IF role[u] \notin {"teacher", "school_admin", "super_admin"} THEN FALSE
    ELSE IF projects[ProjectOf(o)].lead_school \in ActiveSchoolsOf(u)
            /\ role[u] \in {"teacher", "school_admin"} THEN TRUE
    ELSE ActiveSchoolsOf(u) \cap ParticipatingSchools(ProjectOf(o)) # {}
         /\ role[u] \in {"teacher", "school_admin"}

CanManageSchoolMembers_has_permission(u, m) ==
    IF ~is_authenticated(u) THEN FALSE
    ELSE IF is_staff[u] THEN TRUE
    ELSE role[u] \in {"school_admin", "super_admin"}

CanManageSchoolMembers_has_object_permission(u, m, o) ==
    IF is_staff[u] THEN TRUE
    ELSE IF SchoolOfForManage(o) = NULL THEN FALSE
    ELSE schools[SchoolOfForManage(o)].admin = u

CanManageProjectParticipants_has_permission(u, m) ==
    IF ~is_authenticated(u) THEN FALSE
    ELSE IF is_staff[u] THEN TRUE
    ELSE role[u] \in {"teacher", "school_admin", "super_admin"}

CanManageProjectParticipants_has_object_permission(u, m, o) ==
    IF is_staff[u] THEN TRUE
    ELSE IF ProjectOf(o) = NULL THEN FALSE
    ELSE IF projects[ProjectOf(o)].created_by = u THEN TRUE
    ELSE IF projects[ProjectOf(o)].lead_school \in ActiveSchoolsOf(u)
            /\ role[u] \in {"teacher", "school_admin"} THEN TRUE
    ELSE ActiveSchoolsOf(u) \cap ParticipatingSchools(ProjectOf(o)) # {}
         /\ role[u] \in {"teacher", "school_admin"}

CanUploadProjectProgress_has_permission(u, m) ==
    IF ~is_authenticated(u) THEN FALSE
    ELSE IF is_staff[u] THEN TRUE
    ELSE ActiveSchoolsOf(u) # {}

CanUploadProjectProgress_has_object_permission(u, m, o) ==
    IF is_staff[u] THEN TRUE
    ELSE IF ProjectOf(o) = NULL THEN FALSE
    ELSE IF role[u] \in {"teacher", "school_admin", "super_admin"}
         THEN ActiveSchoolsOf(u) \cap
                (ParticipatingSchools(ProjectOf(o)) \cup {projects[ProjectOf(o)].lead_school}) # {}
    ELSE IF role[u] = "student"
         THEN participants[<<ProjectOf(o), u>>] = "active"
    ELSE FALSE

IsCertificateRecipientOrIssuer_has_permission(u, m) == is_authenticated(u)

IsCertificateRecipientOrIssuer_has_object_permission(u, m, o) ==
    IF is_staff[u] THEN TRUE
    ELSE IF HasAttr(o, "recipient") /\ Attr(o, "recipient") = u THEN m \in SAFE_METHODS
    ELSE IF HasAttr(o, "issued_by") /\ Attr(o, "issued_by") = u THEN TRUE
    ELSE FALSE

IsDonorOrStaff_has_permission(u, m) ==
    IF m = "POST" THEN TRUE ELSE is_authenticated(u)

IsDonorOrStaff_has_object_permission(u, m, o) ==
    IF is_authenticated(u) /\ is_staff[u] THEN TRUE
    ELSE IF m \in SAFE_METHODS THEN Attr(o, "payment_status") = "completed"
    ELSE FALSE

(***************************************************************************)
(* One authorization decision: every permission class a view can list,     *)
(* evaluated for one request (has_permission, then has_object_permission). *)
(***************************************************************************)
ProjectClasses == {"IsOwnerOrReadOnly", "IsProjectCreatorOrCollaborator",
                   "IsProjectOwnerOrParticipant", "CanViewSchoolData",
                   "CanJoinProject", "CanManageProjectContent",
                   "CanUpdateProjectProgress", "CanManageProjectStructure",
                   "CanManageProjectParticipants", "CanUploadProjectProgress"}
SchoolClasses == {"IsSchoolAdminOrReadOnly", "IsTeacherOrReadOnly",
                  "IsStudentOrTeacherForSchool", "IsSchoolMember", "CanViewSchoolData",
                  "CanCreateSchool", "CanCreateProject", "CanManageSchoolContent",
                  "CanManageSchoolMembers"}

ClassesFor(o) ==
    CASE o.kind = "project" -> ProjectClasses
      [] o.kind = "school"  -> SchoolClasses
      [] OTHER -> {}

Decide(cls, u, m, o) ==
    CASE cls = "IsOwnerOrReadOnly" ->
            IsOwnerOrReadOnly_has_permission(u, m)
            /\ IsOwnerOrReadOnly_has_object_permission(u, m, o)
      [] cls = "IsSchoolAdminOrReadOnly" ->
            IsSchoolAdminOrReadOnly_has_permission(u, m)
            /\ IsSchoolAdminOrReadOnly_has_object_permission(u, m, o)
      [] cls = "IsTeacherOrReadOnly" ->
            IsTeacherOrReadOnly_has_permission(u, m)
            /\ IsTeacherOrReadOnly_has_object_permission(u, m, o)
      [] cls = "IsStudentOrTeacherForSchool" ->
            IsStudentOrTeacherForSchool_has_permission(u, m)
            /\ IsStudentOrTeacherForSchool_has_object_permission(u, m, o)
      [] cls = "IsProjectCreatorOrCollaborator" ->
            IsProjectCreatorOrCollaborator_has_permission(u, m)
            /\ IsProjectCreatorOrCollaborator_has_object_permission(u, m, o)
      [] cls = "IsProjectOwnerOrParticipant" ->
            IsProjectOwnerOrParticipant_has_permission(u, m)
            /\ IsProjectOwnerOrParticipant_has_object_permission(u, m, o)
      [] cls = "IsSchoolMember" ->
            IsSchoolMember_has_permission(u, m)
            /\ IsSchoolMember_has_object_permission(u, m, o)
      [] cls = "CanViewSchoolData" ->
            CanViewSchoolData_has_permission(u, m)
            /\ CanViewSchoolData_has_object_permission(u, m, o)
      [] cls = "CanCreateSchool" ->
            CanCreateSchool_has_permission(u, m)
            /\ CanCreateSchool_has_object_permission(u, m, o)
      [] cls = "CanCreateProject" ->
            CanCreateProject_has_permission(u, m)
            /\ CanCreateProject_has_object_permission(u, m, o)
      [] cls = "CanManageSchoolContent" ->
            CanManageSchoolContent_has_permission(u, m)
            /\ CanManageSchoolContent_has_object_permission(u, m, o)
      [] cls = "CanJoinProject" ->
            CanJoinProject_has_permission(u, m)
            /\ CanJoinProject_has_object_permission(u, m, o)
      [] cls = "CanManageProjectContent" ->
            CanManageProjectContent_has_permission(u, m)
            /\ CanManageProjectContent_has_object_permission(u, m, o)
      [] cls = "CanUpdateProjectProgress" ->
            CanUpdateProjectProgress_has_permission(u, m)
            /\ CanUpdateProjectProgress_has_object_permission(u, m, o)
      [] cls = "CanManageProjectStructure" ->
            CanManageProjectStructure_has_permission(u, m)
            /\ CanManageProjectStructure_has_object_permission(u, m, o)
      [] cls = "CanManageSchoolMembers" ->
            CanManageSchoolMembers_has_permission(u, m)
            /\ CanManageSchoolMembers_has_object_permission(u, m, o)
      [] cls = "CanManageProjectParticipants" ->
            CanManageProjectParticipants_has_permission(u, m)
            /\ CanManageProjectParticipants_has_object_permission(u, m, o)
      [] cls = "CanUploadProjectProgress" ->
            CanUploadProjectProgress_has_permission(u, m)
            /\ CanUploadProjectProgress_has_object_permission(u, m, o)
      [] OTHER -> FALSE

NoAllow == << >>
NoRequest == [op |-> "none", actor |-> NULL, method |-> NULL, obj |-> NULL,
              status |-> 0, allow |-> NoAllow]
Response(op, u, m, o, st) ==
    [op |-> op, actor |-> u, method |-> m, obj |-> o, status |-> st, allow |-> NoAllow]

ProbeMethods == {"GET", "PUT"}
ProbeObjects == {ProjectObj(p) : p \in Projects} \cup {SchoolObj(s) : s \in InitialSchools}

\* mutant: the evaluation stores a membership for the user it evaluated
Authorize_Writing(u, m, o) ==
    /\ last' = [op |-> "authorize", actor |-> u, method |-> m, obj |-> o, status |-> 0,
                allow |-> [cls \in ClassesFor(o) |-> Decide(cls, u, m, o)]]
    /\ memberships' = [memberships EXCEPT ![u] =
                          IF \E i \in DOMAIN @ : @[i].school = "S1"
                            THEN [i \in DOMAIN @ |-> [@[i] EXCEPT !.is_active = TRUE]]
                            ELSE Append(@, [school |-> "S1", is_active |-> TRUE])]
    /\ UNCHANGED <<role, is_staff, schools, projects, participations, participants,
                   contentVars, donationVars, recordVars, now, walletVars, otpVars>>

Authorize(u, m, o) ==
    /\ last' = [op |-> "authorize", actor |-> u, method |-> m, obj |-> o, status |-> 0,
                allow |-> [cls \in ClassesFor(o) |-> Decide(cls, u, m, o)]]
    /\ UNCHANGED <<authVars, contentVars, donationVars, recordVars, now, walletVars, otpVars>>

(***************************************************************************)
(* View handlers of core/views.py                                          *)
(***************************************************************************)
\* index of the (user, school) row of u, 0 if there is none
MembershipIndex(u, s) ==
    IF \E i \in DOMAIN memberships[u] : memberships[u][i].school = s
    THEN CHOOSE i \in DOMAIN memberships[u] : memberships[u][i].school = s
    ELSE 0

GetOrCreateActive_AlwaysInsert(u, s) ==
    [memberships EXCEPT ![u] = Append(@, [school |-> s, is_active |-> TRUE])]

\* SchoolMembership.objects.get_or_create(user, school, defaults={'is_active': True}),
\* then reactivation of a row that was inactive
GetOrCreateActive(u, s) ==
    IF MembershipIndex(u, s) = 0
    THEN [memberships EXCEPT ![u] = Append(@, [school |-> s, is_active |-> TRUE])]
    ELSE [memberships EXCEPT ![u][MembershipIndex(u, s)].is_active = TRUE]

\* PATCH /auth/profile/ {role}: UserProfileView with UserUpdateSerializer
UserProfileUpdate(u, r) ==
    /\ role' = [role EXCEPT ![u] = r]
    /\ last' = Response("profile_update", u, "PATCH", NULL, 200)
    /\ UNCHANGED <<is_staff, memberships, schools, projects, participations, participants,
                   donationVars, recordVars, contentVars, now, walletVars, otpVars>>

\* POST /schools/{pk}/join/
SchoolJoin(u, s) ==
    /\ IF schools[s] = NoSchool
       THEN /\ last' = Response("school_join", u, "POST", SchoolObj(s), 404)
            /\ UNCHANGED memberships
       ELSE IF MembershipIndex(u, s) # 0 /\ memberships[u][MembershipIndex(u, s)].is_active
       THEN /\ last' = Response("school_join", u, "POST", SchoolObj(s), 400)
            /\ UNCHANGED memberships
       ELSE /\ memberships' = GetOrCreateActive(u, s)
            /\ last' = Response("school_join", u, "POST", SchoolObj(s), 200)
    /\ UNCHANGED <<role, is_staff, schools, projects, participations, participants,
                   donationVars, recordVars, contentVars, now, walletVars, otpVars>>

\* SchoolMembershipViewSet.get_queryset: the rows the actor may address
MembershipVisible(actor, u, s) ==
    is_staff[actor] \/ schools[s].admin = actor \/ u = actor

\* PATCH /school-memberships/{id}/ {is_active}
MembershipPartialUpdate(actor, u, s, active) ==
    /\ IF MembershipIndex(u, s) # 0 /\ MembershipVisible(actor, u, s)
       THEN /\ memberships' = [memberships EXCEPT ![u][MembershipIndex(u, s)].is_active = active]
            /\ last' = Response("membership_update", actor, "PATCH", SchoolObj(s), 200)
       ELSE /\ last' = Response("membership_update", actor, "PATCH", SchoolObj(s), 404)
            /\ UNCHANGED memberships
    /\ UNCHANGED <<role, is_staff, schools, projects, participations, participants,
                   donationVars, recordVars, contentVars, now, walletVars, otpVars>>

\* user.school_memberships.filter(is_active=True).first().school
FirstActiveSchool(u) ==
    memberships[u][CHOOSE i \in DOMAIN memberships[u] :
                      /\ memberships[u][i].is_active
                      /\ \A j \in DOMAIN memberships[u] : memberships[u][j].is_active => i <= j].school

\* join that inserts a row for a fresh pair only and leaves an inactive row inactive
ProjectJoin_NoReactivate(u, p) ==
    /\ IF ~CanJoinProject_has_permission(u, "POST")
       THEN /\ last' = Response("project_join", u, "POST", ProjectObj(p), 403)
            /\ UNCHANGED participations
       ELSE IF ActiveSchoolsOf(u) = {}
       THEN /\ last' = Response("project_join", u, "POST", ProjectObj(p), 400)
            /\ UNCHANGED participations
       ELSE IF participations[<<p, FirstActiveSchool(u)>>] = "active"
       THEN /\ last' = Response("project_join", u, "POST", ProjectObj(p), 400)
            /\ UNCHANGED participations
       ELSE /\ participations' =
                  IF participations[<<p, FirstActiveSchool(u)>>] = "none"
                  THEN [participations EXCEPT ![<<p, FirstActiveSchool(u)>>] = "active"]
                  ELSE participations
            /\ last' = Response("project_join", u, "POST", ProjectObj(p), 200)
    /\ UNCHANGED <<role, is_staff, memberships, schools, projects, participants,
                   donationVars, recordVars, contentVars, now, walletVars, otpVars>>

\* POST /projects/{pk}/join/
ProjectJoin(u, p) ==
    /\ IF ~CanJoinProject_has_permission(u, "POST")
       THEN /\ last' = Response("project_join", u, "POST", ProjectObj(p), 403)
            /\ UNCHANGED participations
       ELSE IF ActiveSchoolsOf(u) = {}
       THEN /\ last' = Response("project_join", u, "POST", ProjectObj(p), 400)
            /\ UNCHANGED participations
       ELSE IF participations[<<p, FirstActiveSchool(u)>>] = "active"
       THEN /\ last' = Response("project_join", u, "POST", ProjectObj(p), 400)
            /\ UNCHANGED participations
       ELSE /\ participations' = [participations EXCEPT ![<<p, FirstActiveSchool(u)>>] = "active"]
            /\ last' = Response("project_join", u, "POST", ProjectObj(p), 200)
    /\ UNCHANGED <<role, is_staff, memberships, schools, projects, participants,
                   donationVars, recordVars, contentVars, now, walletVars, otpVars>>

\* PATCH /project-participations/{id}/ {is_active}: ProjectParticipationViewSet,
\* permissions.IsAuthenticated on all rows
ProjectParticipationPartialUpdate(actor, p, s, active) ==
    /\ IF ~is_authenticated(actor)
       THEN /\ last' = Response("participation_update", actor, "PATCH", ProjectObj(p), 401)
            /\ UNCHANGED participations
       ELSE IF participations[<<p, s>>] = "none"
       THEN /\ last' = Response("participation_update", actor, "PATCH", ProjectObj(p), 404)
            /\ UNCHANGED participations
       ELSE /\ participations' = [participations EXCEPT
                                    ![<<p, s>>] = IF active THEN "active" ELSE "inactive"]
            /\ last' = Response("participation_update", actor, "PATCH", ProjectObj(p), 200)
    /\ UNCHANGED <<role, is_staff, memberships, schools, projects, participants,
                   donationVars, recordVars, contentVars, now, walletVars, otpVars>>

\* POST /projects/{project_pk}/participants/ {student, student_class, is_active}
ProjectParticipantCreate(actor, p, student, active, class_school) ==
    /\ IF ~CanManageProjectParticipants_has_permission(actor, "POST")
       THEN /\ last' = Response("participant_create", actor, "POST", ProjectObj(p), 403)
            /\ UNCHANGED <<participants, participant_class>>
       ELSE IF participants[<<p, student>>] # "none"
       THEN /\ last' = Response("participant_create", actor, "POST", ProjectObj(p), 400)
            /\ UNCHANGED <<participants, participant_class>>
       ELSE /\ participants' = [participants EXCEPT
                                  ![<<p, student>>] = IF active THEN "active" ELSE "inactive"]
            /\ participant_class' = [participant_class EXCEPT ![<<p, student>>] = class_school]
            /\ last' = Response("participant_create", actor, "POST", ProjectObj(p), 201)
    /\ UNCHANGED <<role, is_staff, memberships, schools, projects, participations,
                   updates, classes, profiles, goals, files, donationVars, recordVars, now,
                   walletVars, otpVars>>

\* ProjectParticipantViewSet on a detail route: has_permission, then get_object
\* (404 for a missing row), then has_object_permission on the row
ParticipantWriteStatus(actor, m, p, student, ok) ==
    IF ~CanManageProjectParticipants_has_permission(actor, m) THEN 403
    ELSE IF participants[<<p, student>>] = "none" THEN 404
    ELSE IF ~CanManageProjectParticipants_has_object_permission(actor, m, ParticipantObj(p, student))
    THEN 403
    ELSE ok

\* PATCH /projects/{project_pk}/participants/{id}/ {is_active}
ProjectParticipantPartialUpdate(actor, p, student, active) ==
    /\ last' = Response("participant_update", actor, "PATCH", ParticipantObj(p, student),
                        ParticipantWriteStatus(actor, "PATCH", p, student, 200))
    /\ IF ParticipantWriteStatus(actor, "PATCH", p, student, 200) = 200
       THEN participants' = [participants EXCEPT
                               ![<<p, student>>] = IF active THEN "active" ELSE "inactive"]
       ELSE UNCHANGED participants
    /\ UNCHANGED <<role, is_staff, memberships, schools, projects, participations,
                   contentVars, donationVars, recordVars, now, walletVars, otpVars>>

\* DELETE /projects/{project_pk}/participants/{id}/
ProjectParticipantDestroy(actor, p, student) ==
    /\ last' = Response("participant_destroy", actor, "DELETE", ParticipantObj(p, student),
                        ParticipantWriteStatus(actor, "DELETE", p, student, 204))
    /\ IF ParticipantWriteStatus(actor, "DELETE", p, student, 204) = 204
       THEN /\ participants' = [participants EXCEPT ![<<p, student>>] = "none"]
            /\ participant_class' = [participant_class EXCEPT ![<<p, student>>] = NULL]
       ELSE UNCHANGED <<participants, participant_class>>
    /\ UNCHANGED <<role, is_staff, memberships, schools, projects, participations,
                   updates, classes, profiles, goals, files, donationVars, recordVars, now,
                   walletVars, otpVars>>

GoalIds == {"g1"}
FileIds == {"f1"}
\* the entry of an id that no row carries
NoRow == [project |-> NULL]

\* ProjectGoalViewSet and ProjectFileViewSet on a detail route: has_permission, then
\* get_object on the rows of project_pk (404), then has_object_permission on the row
StructureWriteStatus(actor, m, o, present, ok) ==
    IF ~CanManageProjectStructure_has_permission(actor, m) THEN 403
    ELSE IF ~present THEN 404
    ELSE IF ~CanManageProjectStructure_has_object_permission(actor, m, o) THEN 403
    ELSE ok

\* POST /projects/{project_pk}/goals/ {description}
ProjectGoalCreate(actor, p) ==
    /\ IF ~CanManageProjectStructure_has_permission(actor, "POST")
       THEN /\ last' = Response("goal_create", actor, "POST", ProjectObj(p), 403)
            /\ UNCHANGED goals
       ELSE /\ \E g \in GoalIds : goals[g] = NoRow
            /\ goals' = [goals EXCEPT ![CHOOSE g \in GoalIds : goals[g] = NoRow] =
                            [project |-> p, is_completed |-> FALSE]]
            /\ last' = Response("goal_create", actor, "POST", ProjectObj(p), 201)
    /\ UNCHANGED <<authVars, updates, classes, profiles, participant_class, files,
                   donationVars, recordVars, now, walletVars, otpVars>>

\* PATCH /projects/{project_pk}/goals/{id}/ {is_completed}
ProjectGoalPartialUpdate(actor, p, g, done) ==
    /\ last' = Response("goal_update", actor, "PATCH", GoalObj(g, p),
                        StructureWriteStatus(actor, "PATCH", GoalObj(g, p),
                                             goals[g].project = p, 200))
    /\ IF StructureWriteStatus(actor, "PATCH", GoalObj(g, p), goals[g].project = p, 200) = 200
       THEN goals' = [goals EXCEPT ![g].is_completed = done]
       ELSE UNCHANGED goals
    /\ UNCHANGED <<authVars, updates, classes, profiles, participant_class, files,
                   donationVars, recordVars, now, walletVars, otpVars>>

\* DELETE /projects/{project_pk}/goals/{id}/
ProjectGoalDestroy(actor, p, g) ==
    /\ last' = Response("goal_destroy", actor, "DELETE", GoalObj(g, p),
                        StructureWriteStatus(actor, "DELETE", GoalObj(g, p),
                                             goals[g].project = p, 204))
    /\ IF StructureWriteStatus(actor, "DELETE", GoalObj(g, p), goals[g].project = p, 204) = 204
       THEN goals' = [goals EXCEPT ![g] = NoRow]
       ELSE UNCHANGED goals
    /\ UNCHANGED <<authVars, updates, classes, profiles, participant_class, files,
                   donationVars, recordVars, now, walletVars, otpVars>>

\* POST /projects/{project_pk}/files/ {file, description}
ProjectFileCreate(actor, p, description) ==
    /\ IF ~CanManageProjectStructure_has_permission(actor, "POST")
       THEN /\ last' = Response("file_create", actor, "POST", ProjectObj(p), 403)
            /\ UNCHANGED files
       ELSE /\ \E f \in FileIds : files[f] = NoRow
            /\ files' = [files EXCEPT ![CHOOSE f \in FileIds : files[f] = NoRow] =
                            [project |-> p, description |-> description]]
            /\ last' = Response("file_create", actor, "POST", ProjectObj(p), 201)
    /\ UNCHANGED <<authVars, updates, classes, profiles, participant_class, goals,
                   donationVars, recordVars, now, walletVars, otpVars>>

\* PATCH /projects/{project_pk}/files/{id}/ {description}
ProjectFilePartialUpdate(actor, p, f, description) ==
    /\ last' = Response("file_update", actor, "PATCH", FileObj(f, p),
                        StructureWriteStatus(actor, "PATCH", FileObj(f, p),
                                             files[f].project = p, 200))
    /\ IF StructureWriteStatus(actor, "PATCH", FileObj(f, p), files[f].project = p, 200) = 200
       THEN files' = [files EXCEPT ![f].description = description]
       ELSE UNCHANGED files
    /\ UNCHANGED <<authVars, updates, classes, profiles, participant_class, goals,
                   donationVars, recordVars, now, walletVars, otpVars>>

\* DELETE /projects/{project_pk}/files/{id}/
ProjectFileDestroy(actor, p, f) ==
    /\ last' = Response("file_destroy", actor, "DELETE", FileObj(f, p),
                        StructureWriteStatus(actor, "DELETE", FileObj(f, p),
                                             files[f].project = p, 204))
    /\ IF StructureWriteStatus(actor, "DELETE", FileObj(f, p), files[f].project = p, 204) = 204
       THEN files' = [files EXCEPT ![f] = NoRow]
       ELSE UNCHANGED files
    /\ UNCHANGED <<authVars, updates, classes, profiles, participant_class, goals,
                   donationVars, recordVars, now, walletVars, otpVars>>

\* ProjectViewSet.get_permissions for update / partial_update / destroy
ProjectWriteAllowed(u, m, p) ==
    /\ IsProjectOwnerOrParticipant_has_permission(u, m)
    /\ IsProjectOwnerOrParticipant_has_object_permission(u, m, ProjectObj(p))

\* PUT /projects/{pk}/ {title}
ProjectUpdate(u, p, title) ==
    /\ IF ProjectWriteAllowed(u, "PUT", p)
       THEN /\ projects' = [projects EXCEPT ![p].title = title]
            /\ last' = Response("project_update", u, "PUT", ProjectObj(p), 200)
       ELSE /\ last' = Response("project_update", u, "PUT", ProjectObj(p), 403)
            /\ UNCHANGED projects
    /\ UNCHANGED <<role, is_staff, memberships, schools, participations, participants,
                   donationVars, recordVars, contentVars, now, walletVars, otpVars>>

\* Project.STATUS_CHOICES
STATUS_CHOICES == {"draft", "pending_approval", "active", "completed", "cancelled"}

\* a value the choice field refuses
BadStatus == "archived"

\* PATCH /projects/{pk}/ {status}: ProjectSerializer lists status as a writable
\* choice field
ProjectPartialUpdateStatus(u, p, st) ==
    /\ IF ~ProjectWriteAllowed(u, "PATCH", p)
       THEN /\ last' = Response("project_status", u, "PATCH", ProjectObj(p), 403)
            /\ UNCHANGED projects
       ELSE IF st \notin STATUS_CHOICES
       THEN /\ last' = Response("project_status", u, "PATCH", ProjectObj(p), 400)
            /\ UNCHANGED projects
       ELSE /\ projects' = [projects EXCEPT ![p].status = st]
            /\ last' = Response("project_status", u, "PATCH", ProjectObj(p), 200)
    /\ UNCHANGED <<role, is_staff, memberships, schools, participations, participants,
                   donationVars, recordVars, contentVars, now, walletVars, otpVars>>

\* unique_together (name, city, country) of School: a row other than s carries the name
NameTaken(name, city, s) ==
    \E t \in Schools \ {s} : schools[t].name = name /\ schools[t].city = city

\* SchoolViewSet.get_permissions for update / partial_update / destroy
SchoolWriteAllowed(u, m, s) ==
    /\ IsSchoolAdminOrReadOnly_has_permission(u, m)
    /\ IsSchoolAdminOrReadOnly_has_object_permission(u, m, SchoolObj(s))

\* PUT or PATCH /schools/{pk}/ {name}
SchoolUpdate(u, m, s, name) ==
    /\ IF ~SchoolWriteAllowed(u, m, s)
       THEN /\ last' = Response("school_update", u, m, SchoolObj(s), 403)
            /\ UNCHANGED schools
       ELSE IF NameTaken(name, schools[s].city, s)
       THEN /\ last' = Response("school_update", u, m, SchoolObj(s), 400)
            /\ UNCHANGED schools
       ELSE /\ schools' = [schools EXCEPT ![s].name = name]
            /\ last' = Response("school_update", u, m, SchoolObj(s), 200)
    /\ UNCHANGED <<role, is_staff, memberships, projects, participations, participants,
                   donationVars, recordVars, contentVars, now, walletVars, otpVars>>

\* a call of the utility function is_school_admin(user, school)
IsSchoolAdminCall(u, s) ==
    /\ last' = [op |-> "is_school_admin", actor |-> u, method |-> NULL, obj |-> SchoolObj(s),
                status |-> 0, allow |-> <<is_school_admin(u, s)>>]
    /\ UNCHANGED <<authVars, contentVars, donationVars, recordVars, now, walletVars, otpVars>>

MaxUpdates == 2

\* POST /projects/{project_pk}/updates/: ProjectUpdateViewSet.create.  A create
\* never reaches get_object, so only has_permission is consulted.
ProjectUpdateCreate(u, p) ==
    /\ IF ~CanUploadProjectProgress_has_permission(u, "POST")
       THEN /\ last' = Response("update_create", u, "POST", ProjectObj(p), 403)
            /\ UNCHANGED updates
       ELSE IF ActiveSchoolsOf(u) = {}
       THEN /\ last' = Response("update_create", u, "POST", ProjectObj(p), 400)
            /\ UNCHANGED updates
       ELSE /\ Len(updates) < MaxUpdates
            /\ updates' = Append(updates, [project |-> p, uploaded_by |-> u,
                                           school |-> FirstActiveSchool(u)])
            /\ last' = Response("update_create", u, "POST", ProjectObj(p), 201)
    /\ UNCHANGED <<authVars, classes, profiles, participant_class, goals, files,
                   donationVars, recordVars, now, walletVars, otpVars>>

(***************************************************************************)
(* School creation and the school member endpoints of core/views.py        *)
(***************************************************************************)
Cities == {"k0", "k1"}
ClassNames == {"c1", "c2"}
CreatorRoles == {"student", "teacher"}

\* the response of an endpoint that names a target user
MemberResponse(op, actor, s, target, st) ==
    [op |-> op, actor |-> actor, method |-> "POST", obj |-> SchoolObj(s),
     status |-> st, allow |-> NoAllow, target |-> target]

\* the id the next School row takes
NewSchoolId == CHOOSE s \in Schools : schools[s] = NoSchool

SchoolCreate_NoMembership(u, creator_role, name, city) ==
    /\ CanCreateSchool_has_permission(u, "POST")
    /\ ~NameTaken(name, city, NULL)
    /\ \E s \in Schools : schools[s] = NoSchool
    /\ role' = [role EXCEPT ![u] = creator_role]
    /\ schools' = [schools EXCEPT ![NewSchoolId] = [admin |-> u, name |-> name, city |-> city]]
    /\ last' = MemberResponse("school_create", u, NewSchoolId, u, 201)
    /\ UNCHANGED <<is_staff, memberships, projects, participations, participants,
                   donationVars, recordVars, contentVars, now, walletVars, otpVars>>

\* POST /schools/: SchoolViewSet.create with SchoolCreateSerializer
SchoolCreate(u, creator_role, name, city) ==
    /\ IF ~CanCreateSchool_has_permission(u, "POST")
       THEN /\ last' = MemberResponse("school_create", u, NULL, u, 403)
            /\ UNCHANGED <<role, memberships, schools>>
       ELSE IF NameTaken(name, city, NULL)
       THEN /\ last' = MemberResponse("school_create", u, NULL, u, 400)
            /\ UNCHANGED <<role, memberships, schools>>
       ELSE /\ \E s \in Schools : schools[s] = NoSchool
            /\ role' = [role EXCEPT ![u] = creator_role]
            /\ schools' = [schools EXCEPT ![NewSchoolId] =
                              [admin |-> u, name |-> name, city |-> city]]
            /\ memberships' = [memberships EXCEPT ![u] =
                                  Append(@, [school |-> NewSchoolId, is_active |-> TRUE])]
            /\ last' = MemberResponse("school_create", u, NewSchoolId, u, 201)
    /\ UNCHANGED <<is_staff, projects, participations, participants,
                   donationVars, recordVars, contentVars, now, walletVars, otpVars>>

\* DELETE /school-memberships/{id}/: SchoolMembershipViewSet.destroy
MembershipDestroy(actor, u, s) ==
    /\ IF MembershipIndex(u, s) # 0 /\ MembershipVisible(actor, u, s)
       THEN /\ memberships' = [memberships EXCEPT ![u] =
                                  SelectSeq(@, LAMBDA row : row.school # s)]
            /\ last' = [MemberResponse("membership_destroy", actor, s, u, 204)
                            EXCEPT !.method = "DELETE"]
       ELSE /\ last' = [MemberResponse("membership_destroy", actor, s, u, 404)
                            EXCEPT !.method = "DELETE"]
            /\ UNCHANGED memberships
    /\ UNCHANGED <<role, is_staff, schools, projects, participations, participants,
                   donationVars, recordVars, contentVars, now, walletVars, otpVars>>

\* the (user, school) row exists and is active
ActiveMember(u, s) ==
    MembershipIndex(u, s) # 0 /\ memberships[u][MembershipIndex(u, s)].is_active

\* TeacherProfile.user and StudentProfile.user are one-to-one: get_or_create on
\* (user, school) raises IntegrityError when the user has a profile elsewhere
ProfileClash(kind, u, s) ==
    \E pr \in profiles : pr.kind = kind /\ pr.user = u /\ pr.school # s

ProfileGetOrCreate(kind, u, s) ==
    profiles \cup {[kind |-> kind, user |-> u, school |-> s]}

\* what a member endpoint leaves behind: the status and the rows it wrote
Outcome(st, r, ms, cs, ps) ==
    [status |-> st, role |-> r, memberships |-> ms, classes |-> cs, profiles |-> ps]

Denied(st) == Outcome(st, role, memberships, classes, profiles)

\* add_user_to_school
AddUserOutcome(actor, s, target, user_role, class_name) ==
    IF ~CanManageSchoolMembers_has_permission(actor, "POST") THEN Denied(403)
    ELSE IF schools[s] = NoSchool THEN Denied(500)
    ELSE IF schools[s].admin # actor /\ ~is_staff[actor] THEN Denied(403)
    ELSE IF ActiveMember(target, s) THEN Denied(400)
    ELSE LET ms == GetOrCreateActive(target, s)
             r == [role EXCEPT ![target] = user_role]
         IN  IF user_role = "teacher"
             THEN IF ProfileClash("teacher", target, s)
                  THEN Outcome(500, r, ms, classes, profiles)
                  ELSE Outcome(200, r, ms, classes, ProfileGetOrCreate("teacher", target, s))
             ELSE IF user_role = "student" /\ class_name # NULL
             THEN IF ProfileClash("student", target, s)
                  THEN Outcome(500, r, ms, classes \cup {<<s, class_name>>}, profiles)
                  ELSE Outcome(200, r, ms, classes \cup {<<s, class_name>>},
                               ProfileGetOrCreate("student", target, s))
             ELSE Outcome(200, r, ms, classes, profiles)

\* add_student_to_school, for request data that SchoolAddStudentSerializer accepts
AddStudentOutcome(actor, s, target, class_name) ==
    IF ~CanManageSchoolMembers_has_permission(actor, "POST") THEN Denied(403)
    ELSE IF schools[s] = NoSchool THEN Denied(500)
    ELSE IF (schools[s].admin # actor \/ role[actor] # "teacher") /\ ~is_staff[actor]
         THEN Denied(403)
    ELSE IF role[target] \notin {NULL, "student"} THEN Denied(400)
    ELSE LET r == [role EXCEPT ![target] = "student"]
             ms == GetOrCreateActive(target, s)
         IN  IF ActiveMember(target, s) THEN Outcome(400, r, memberships, classes, profiles)
             ELSE IF <<s, class_name>> \notin classes
             THEN Outcome(400, r, ms, classes, profiles)
             ELSE IF ProfileClash("student", target, s)
             THEN Outcome(500, r, ms, classes, profiles)
             ELSE Outcome(200, r, ms, classes, ProfileGetOrCreate("student", target, s))

\* add_teacher_to_school, for request data that SchoolAddTeacherSerializer accepts
AddTeacherOutcome(actor, s, target, class_names) ==
    IF ~CanManageSchoolMembers_has_permission(actor, "POST") THEN Denied(403)
    ELSE IF schools[s] = NoSchool THEN Denied(500)
    ELSE IF schools[s].admin # actor /\ ~is_staff[actor] THEN Denied(403)
    ELSE IF role[target] \notin {NULL, "teacher"} THEN Denied(400)
    ELSE LET r == [role EXCEPT ![target] = "teacher"]
             ms == GetOrCreateActive(target, s)
         IN  IF ActiveMember(target, s) THEN Outcome(400, r, memberships, classes, profiles)
             ELSE IF ProfileClash("teacher", target, s)
             THEN Outcome(500, r, ms, classes, profiles)
             ELSE IF \E c \in class_names : <<s, c>> \notin classes
             THEN Outcome(400, r, ms, classes, ProfileGetOrCreate("teacher", target, s))
             ELSE Outcome(200, r, ms, classes, ProfileGetOrCreate("teacher", target, s))

\* POST /schools/{school_id}/add-user/
AddUserToSchool(actor, s, target, user_role, class_name) ==
    LET out == AddUserOutcome(actor, s, target, user_role, class_name)
    IN  /\ role' = out.role
        /\ memberships' = out.memberships
        /\ classes' = out.classes
        /\ profiles' = out.profiles
        /\ last' = MemberResponse("add_user", actor, s, target, out.status)
        /\ UNCHANGED <<is_staff, schools, projects, participations, participants, updates,
                       participant_class, goals, files, donationVars, recordVars, now, walletVars, otpVars>>

\* POST /schools/{school_id}/add-student-school/
AddStudentToSchool(actor, s, target, class_name) ==
    LET out == AddStudentOutcome(actor, s, target, class_name)
    IN  /\ role' = out.role
        /\ memberships' = out.memberships
        /\ classes' = out.classes
        /\ profiles' = out.profiles
        /\ last' = MemberResponse("add_student", actor, s, target, out.status)
        /\ UNCHANGED <<is_staff, schools, projects, participations, participants, updates,
                       participant_class, goals, files, donationVars, recordVars, now, walletVars, otpVars>>

\* POST /schools/{school_id}/add-teacher-school/
AddTeacherToSchool(actor, s, target, class_names) ==
    LET out == AddTeacherOutcome(actor, s, target, class_names)
    IN  /\ role' = out.role
        /\ memberships' = out.memberships
        /\ classes' = out.classes
        /\ profiles' = out.profiles
        /\ last' = MemberResponse("add_teacher", actor, s, target, out.status)
        /\ UNCHANGED <<is_staff, schools, projects, participations, participants, updates,
                       participant_class, goals, files, donationVars, recordVars, now, walletVars, otpVars>>

(***************************************************************************)
(* Certificates: CertificateViewSet and download_certificate               *)
(***************************************************************************)
CertIds == {"k1"}
\* the entry of an id that no Certificate row carries
NoCert == [recipient |-> NULL, issued_by |-> NULL, title |-> NULL]

\* CertificateViewSet.get_queryset
CertificateVisible(u, k) ==
    /\ certificates[k] # NoCert
    /\ \/ is_staff[u]
       \/ certificates[k].recipient = u
       \/ certificates[k].issued_by = u

\* POST /certificates/ {recipient, issued_by, title}: permissions.IsAuthenticated
CertificateCreate(u, recipient, issuer, title) ==
    /\ IF ~is_authenticated(u)
       THEN /\ last' = Response("certificate_create", u, "POST", NULL, 401)
            /\ UNCHANGED certificates
       ELSE /\ \E k \in CertIds : certificates[k] = NoCert
            /\ certificates' = [certificates EXCEPT
                                  ![CHOOSE k \in CertIds : certificates[k] = NoCert] =
                                      [recipient |-> recipient, issued_by |-> issuer,
                                       title |-> title]]
            /\ last' = Response("certificate_create", u, "POST",
                                CertificateObj(CHOOSE k \in CertIds : certificates[k] = NoCert),
                                201)
    /\ UNCHANGED <<authVars, contentVars, donationVars, user_emails, now, walletVars, otpVars>>

\* the status of a detail request of CertificateViewSet: IsAuthenticated, then
\* get_object on get_queryset
CertificateDetailStatus(u, k, ok) ==
    IF ~is_authenticated(u) THEN 401
    ELSE IF ~CertificateVisible(u, k) THEN 404
    ELSE ok

\* GET /certificates/{id}/
CertificateRetrieve(u, k) ==
    /\ last' = Response("certificate_retrieve", u, "GET", CertificateObj(k),
                        CertificateDetailStatus(u, k, 200))
    /\ UNCHANGED <<authVars, contentVars, donationVars, recordVars, now, walletVars, otpVars>>

\* PATCH /certificates/{id}/ {title}
CertificatePartialUpdate(u, k, title) ==
    /\ last' = Response("certificate_update", u, "PATCH", CertificateObj(k),
                        CertificateDetailStatus(u, k, 200))
    /\ IF CertificateDetailStatus(u, k, 200) = 200
       THEN certificates' = [certificates EXCEPT ![k].title = title]
       ELSE UNCHANGED certificates
    /\ UNCHANGED <<authVars, contentVars, donationVars, user_emails, now, walletVars, otpVars>>

\* DELETE /certificates/{id}/
CertificateDestroy(u, k) ==
    /\ last' = Response("certificate_destroy", u, "DELETE", CertificateObj(k),
                        CertificateDetailStatus(u, k, 204))
    /\ IF CertificateDetailStatus(u, k, 204) = 204
       THEN certificates' = [certificates EXCEPT ![k] = NoCert]
       ELSE UNCHANGED certificates
    /\ UNCHANGED <<authVars, contentVars, donationVars, user_emails, now, walletVars, otpVars>>

\* GET /certificates/{pk}/download/
download_certificate(u, k) ==
    /\ last' = Response("certificate_download", u, "GET", CertificateObj(k),
                        IF ~is_authenticated(u) THEN 401
                        ELSE IF certificates[k] = NoCert THEN 404
                        ELSE IF certificates[k].recipient # u /\ ~is_staff[u] THEN 403
                        ELSE 200)
    /\ UNCHANGED <<authVars, contentVars, donationVars, recordVars, now, walletVars, otpVars>>

(***************************************************************************)
(* Wallet login: WalletRegistrationView and WalletLoginView of             *)
(* core/views.py, verify_wallet_signature of core/utils.py                 *)
(***************************************************************************)
WalletIds == {"w1"}
\* the holders of a private key; w2 signs, but never registers
Signers == {"w1", "w2"}
Purposes == {"Login", "Register"}
Requests == {"r1", "r2"}
MaxNonces == 2
MaxLogins == 2
MaxTime == 15
TickStep == 5
NONCE_TTL_MINUTES == 10
Nonces == 1..MaxNonces

\* An address as a client writes it: EIP-55 mixed case, or lower case.
WalletAddresses == [id : WalletIds, mixed : BOOLEAN]
NoAddress == [id |-> NULL, mixed |-> FALSE]
\* str.lower()
Lower(a) == [a EXCEPT !.mixed = FALSE]

\* f"{purpose} to Global Classrooms with this wallet\n\nNonce: {nonce}"
ExpectedMessage(purpose, nonce) == [purpose |-> purpose, nonce |-> nonce]
\* the messages clients sign: login messages over the nonces issued
Messages == {ExpectedMessage("Login", n) : n \in Nonces}
NoMessage == [purpose |-> NULL, nonce |-> 0]

\* the signature of message m under the key of k
Sign(k, m) == [signer |-> k, msg |-> m, form |-> "ok"]
NoSignature == [signer |-> NULL, msg |-> NoMessage, form |-> "empty"]
Malformed == [signer |-> NULL, msg |-> NoMessage, form |-> "malformed"]
Signatures == {Sign(k, m) : k \in Signers, m \in Messages} \cup {Malformed}

\* Account.recover_message: the checksum address of the key that signed, and
\* the address of some unrelated key when the signature is over another message
Recover(m, sig) ==
    IF sig.msg = m THEN [id |-> sig.signer, mixed |-> TRUE]
    ELSE [id |-> "unrelated", mixed |-> TRUE]

LoginResponse(op, req, st, err) ==
    [op |-> op, request |-> req, status |-> st, error |-> err, at |-> now]

WalletRequest(addr, m, sig) == [wallet |-> addr, message |-> m, signature |-> sig]

WalletRegister(addr, r) ==
    /\ IF addr = NoAddress
         THEN /\ last' = LoginResponse("wallet_register", addr, 400, "wallet_address is required")
              /\ UNCHANGED wallet_users
       ELSE IF addr \in wallet_users
         THEN /\ last' = LoginResponse("wallet_register", addr, 400, "Wallet already registered")
              /\ UNCHANGED wallet_users
       ELSE IF r \notin USER_ROLES
         THEN /\ last' = LoginResponse("wallet_register", addr, 400, "Invalid role")
              /\ UNCHANGED wallet_users
       ELSE /\ wallet_users' = wallet_users \cup {addr}
            /\ last' = LoginResponse("wallet_register", addr, 201, "")
    /\ UNCHANGED <<authVars, contentVars, donationVars, recordVars, now, otpVars, wallet_nonces, next_nonce,
                   verify_req, consumed, wallet_logins>>

\* status and error of WalletLoginView.post
WalletLoginResult(addr, sig, m) ==
    IF addr = NoAddress THEN <<400, "wallet_address is required">>
    ELSE IF sig = NoSignature THEN <<400, "signature is required">>
    ELSE IF m = NoMessage THEN <<400, "message is required">>
    ELSE IF sig.form # "ok" THEN <<400, "Invalid signature format">>
    ELSE IF Lower(Recover(m, sig)) # Lower(addr) THEN <<401, "Invalid signature">>
    ELSE IF {a \in wallet_users : Lower(a) = Lower(addr)} = {} THEN <<404, "User not found">>
    ELSE IF Cardinality({a \in wallet_users : Lower(a) = Lower(addr)}) > 1
      THEN <<500, "MultipleObjectsReturned">>
    ELSE <<200, "">>

WalletLogin(addr, sig, m) ==
    LET res == WalletLoginResult(addr, sig, m)
        req == WalletRequest(addr, m, sig)
    IN /\ res[1] = 200 => Len(wallet_logins) < MaxLogins
       /\ wallet_logins' = IF res[1] = 200 THEN Append(wallet_logins, req) ELSE wallet_logins
       /\ last' = LoginResponse("wallet_login", req, res[1], res[2])
       /\ UNCHANGED <<authVars, contentVars, donationVars, recordVars, now, otpVars, wallet_users, wallet_nonces,
                      next_nonce, verify_req, consumed>>

\* the WalletNonce rows of a (lower case) wallet address
NonceRows(w) == {row \in wallet_nonces : row.wallet = w}

\* A fresh nonce for the wallet replaces the one stored for it.
IssueNonce(addr) ==
    LET w == Lower(addr)
        fresh == [pk |-> next_nonce, wallet |-> w, nonce |-> next_nonce, created_at |-> now]
    IN /\ next_nonce <= MaxNonces
       /\ wallet_nonces' =
            IF NonceRows(w) = {} THEN wallet_nonces \cup {fresh}
            ELSE {IF row.wallet = w THEN [fresh EXCEPT !.pk = row.pk] ELSE row :
                     row \in wallet_nonces}
       /\ next_nonce' = next_nonce + 1
       /\ last' = LoginResponse("issue_nonce", WalletRequest(addr, NoMessage, NoSignature), 200, "")
       /\ UNCHANGED <<authVars, contentVars, donationVars, recordVars, now, otpVars, wallet_users, verify_req,
                      consumed, wallet_logins>>

\* mutant: the age of the nonce is not checked
NonceExpired_Never(row, t) == FALSE

\* nonce_obj.created_at < timezone.now() - timedelta(minutes=10)
NonceExpired(row, t) == row.created_at < t - NONCE_TTL_MINUTES

IdleVerify == [pc |-> "idle", pk |-> 0, wallet |-> NoAddress, nonce |-> 0]

VerifyRequest(addr, m, sig, purpose) ==
    [wallet |-> addr, message |-> m, signature |-> sig, purpose |-> purpose]

\* what verify_wallet_signature answers before it deletes the nonce:
\* <<0, "">> when every check passed
VerifyChecks(addr, m, sig, purpose) ==
    LET w == Lower(addr)
    IN IF NonceRows(w) = {} THEN <<400, "Nonce not found for wallet">>
       ELSE LET nonce_obj == CHOOSE row \in NonceRows(w) : TRUE
            IN IF NonceExpired(nonce_obj, now) THEN <<400, "Nonce expired">>
               ELSE IF m # ExpectedMessage(purpose, nonce_obj.nonce)
                 THEN <<400, "Invalid nonce or message">>
               ELSE IF sig.form # "ok" THEN <<400, "Invalid signature format">>
               ELSE IF Lower(Recover(m, sig)) # w THEN <<401, "Invalid signature">>
               ELSE <<0, "">>

\* verify_wallet_signature, steps 1 to 4: load the nonce row and check the request
VerifyLoad(r, addr, m, sig, purpose) ==
    LET res == VerifyChecks(addr, m, sig, purpose)
        w == Lower(addr)
    IN /\ verify_req[r].pc # "loaded"
       /\ verify_req' =
            [verify_req EXCEPT ![r] =
                IF res[1] = 0
                  THEN LET nonce_obj == CHOOSE row \in NonceRows(w) : TRUE
                       IN [pc |-> "loaded", pk |-> nonce_obj.pk, wallet |-> w,
                           nonce |-> nonce_obj.nonce]
                  ELSE IdleVerify]
       /\ last' = LoginResponse("verify", VerifyRequest(addr, m, sig, purpose), res[1], res[2])
       /\ UNCHANGED <<authVars, contentVars, donationVars, recordVars, now, otpVars, wallet_users, wallet_nonces,
                      next_nonce, consumed, wallet_logins>>

\* verify_wallet_signature, step 5: nonce_obj.delete() and return True
VerifyDelete(r) ==
    /\ verify_req[r].pc = "loaded"
    /\ wallet_nonces' = {row \in wallet_nonces : row.pk # verify_req[r].pk}
    /\ consumed' = consumed \cup {verify_req[r].nonce}
    /\ verify_req' = [verify_req EXCEPT ![r].pc = "done"]
    /\ last' = LoginResponse("verify_return", r, 200, "")
    /\ UNCHANGED <<authVars, contentVars, donationVars, recordVars, now, otpVars, wallet_users, next_nonce,
                   wallet_logins>>

\* the clock moves on
Tick ==
    /\ now + TickStep <= MaxTime
    /\ now' = now + TickStep
    /\ last' = [op |-> "tick", request |-> NULL, status |-> 0, error |-> "", at |-> now + TickStep]
    /\ UNCHANGED <<authVars, contentVars, donationVars, recordVars, walletVars, otpVars>>

(***************************************************************************)
(* Email login: EmailLoginRequestView, EmailLoginVerifyView of             *)
(* core/views.py and EmailLoginOTP of core/models.py                       *)
(***************************************************************************)
Emails == {"e1"}
\* two of the values str(100000 + secrets.randbelow(900000)) takes
Codes == {"c1", "c2"}
Empty == ""
MaxOtps == 2
OTP_TTL_SECONDS == 600
SecondsPerMinute == 60

\* EmailLoginOTP.is_expired
is_expired(otp, t) == (t - otp.created_at) * SecondsPerMinute > OTP_TTL_SECONDS

OtpResponse(op, email, code, st, err) ==
    [op |-> op, email |-> email, code |-> code, status |-> st, error |-> err, at |-> now]

EmailLoginRequest(email) ==
    /\ IF email = Empty
         THEN /\ last' = OtpResponse("otp_request", email, Empty, 400, "Email is required")
              /\ UNCHANGED <<otps, otp_logins>>
         ELSE /\ Len(otps) < MaxOtps
              /\ \E code \in Codes :
                    otps' = Append(otps, [email |-> email, code |-> code,
                                          created_at |-> now, is_used |-> FALSE])
              /\ otp_logins' = Append(otp_logins, 0)
              /\ last' = OtpResponse("otp_request", email, Empty, 200, "")
    /\ UNCHANGED <<authVars, contentVars, donationVars, recordVars, now, walletVars, otp_req, email_users>>

\* filter(email=email, code=code, is_used=False)
UnusedOtps(email, code) ==
    {i \in DOMAIN otps : otps[i].email = email /\ otps[i].code = code /\ ~otps[i].is_used}

\* latest('created_at'): a row of the newest creation time
Latest(rows) == {i \in rows : \A j \in rows : otps[j].created_at <= otps[i].created_at}

IdleOtp == [pc |-> "idle", otp |-> 0, email |-> Empty, code |-> Empty]

\* EmailLoginVerifyView.post up to the expiry check: select the row
EmailLoginVerifyQuery(r, email, code) ==
    /\ otp_req[r].pc # "selected"
    /\ IF email = Empty \/ code = Empty
         THEN /\ last' = OtpResponse("otp_verify", email, code, 400, "Email and code are required.")
              /\ otp_req' = [otp_req EXCEPT ![r] = IdleOtp]
       ELSE IF UnusedOtps(email, code) = {}
         THEN /\ last' = OtpResponse("otp_verify", email, code, 400, "Invalid code.")
              /\ otp_req' = [otp_req EXCEPT ![r] = IdleOtp]
       ELSE \E i \in Latest(UnusedOtps(email, code)) :
              IF is_expired(otps[i], now)
                THEN /\ last' = OtpResponse("otp_verify", email, code, 400, "Code expired.")
                     /\ otp_req' = [otp_req EXCEPT ![r] = IdleOtp]
                ELSE /\ last' = OtpResponse("otp_verify", email, code, 0, "")
                     /\ otp_req' = [otp_req EXCEPT ![r] =
                                      [pc |-> "selected", otp |-> i, email |-> email,
                                       code |-> code]]
    /\ UNCHANGED <<authVars, contentVars, donationVars, recordVars, now, walletVars, otps, otp_logins, email_users>>

\* EmailLoginVerifyView.post from otp.is_used = True on: save, user, tokens
EmailLoginVerifySave(r) ==
    /\ otp_req[r].pc = "selected"
    /\ otps' = [otps EXCEPT ![otp_req[r].otp].is_used = TRUE]
    /\ email_users' = email_users \cup {otp_req[r].email}
    /\ otp_logins' = [otp_logins EXCEPT ![otp_req[r].otp] = @ + 1]
    /\ otp_req' = [otp_req EXCEPT ![r].pc = "done"]
    /\ last' = OtpResponse("otp_tokens", otp_req[r].email, otp_req[r].code, 200, "")
    /\ UNCHANGED <<authVars, contentVars, donationVars, recordVars, now, walletVars>>

(***************************************************************************)
(* Donations: DonationViewSet of core/views.py, DonationAdmin of           *)
(* core/admin.py                                                           *)
(***************************************************************************)
MaxDonations == 2
PaymentStatuses == {"pending", "completed", "failed"}
DonationActors == {Anonymous, "alice", "bob"}

\* request.user.is_staff, False for AnonymousUser
IsStaffActor(u) == is_authenticated(u) /\ is_staff[u]

DonationResponse(op, u, st, result) ==
    [op |-> op, actor |-> u, status |-> st, result |-> result]

\* mutant: every requester gets all donations
DonationQueryset_All(u) == DOMAIN donations

\* DonationViewSet.get_queryset: the ids of the rows
DonationQueryset(u) ==
    IF IsStaffActor(u) THEN DOMAIN donations
    ELSE {i \in DOMAIN donations : donations[i].payment_status = "completed"}

\* create with DonationCreateSerializer: payment_status takes the model default
DonationCreate(u) ==
    /\ Len(donations) < MaxDonations
    /\ donations' = Append(donations, [payment_status |-> "pending", donor |-> u,
                                       donor_name |-> "n0"])
    /\ last' = DonationResponse("donation_create", u, 201, {Len(donations) + 1})
    /\ UNCHANGED <<authVars, contentVars, recordVars, now, walletVars, otpVars>>

\* list, narrowed by the payment_status filter when one is given
DonationList(u, f) ==
    /\ last' = DonationResponse("donation_list", u, 200,
                  {i \in DonationQueryset(u) : f = NULL \/ donations[i].payment_status = f})
    /\ UNCHANGED <<authVars, contentVars, donationVars, recordVars, now, walletVars, otpVars>>

\* retrieve: get_object looks the id up in get_queryset
DonationRetrieve(u, i) ==
    /\ last' = IF i \in DonationQueryset(u)
                 THEN DonationResponse("donation_retrieve", u, 200, {i})
                 ELSE DonationResponse("donation_retrieve", u, 404, {})
    /\ UNCHANGED <<authVars, contentVars, donationVars, recordVars, now, walletVars, otpVars>>

\* PATCH /donations/{id}/ {donor_name}: DonationSerializer, payment_status read-only;
\* get_object looks the id up in get_queryset
DonationPartialUpdate(u, i, name) ==
    /\ i \in DOMAIN donations
    /\ IF i \in DonationQueryset(u)
         THEN /\ donations' = [donations EXCEPT ![i].donor_name = name]
              /\ last' = DonationResponse("donation_update", u, 200, {i})
         ELSE /\ last' = DonationResponse("donation_update", u, 404, {})
              /\ UNCHANGED donations
    /\ UNCHANGED <<authVars, contentVars, recordVars, now, walletVars, otpVars>>

\* DELETE /donations/{id}/: rows are identified by position, later rows move up
DonationDestroy(u, i) ==
    /\ i \in DOMAIN donations
    /\ IF i \in DonationQueryset(u)
         THEN /\ donations' = SubSeq(donations, 1, i - 1) \o
                                 SubSeq(donations, i + 1, Len(donations))
              /\ last' = DonationResponse("donation_destroy", u, 204, {i})
         ELSE /\ last' = DonationResponse("donation_destroy", u, 404, {})
              /\ UNCHANGED donations
    /\ UNCHANGED <<authVars, contentVars, recordVars, now, walletVars, otpVars>>

\* the admin site: staff edit the payment_status of a donation
DonationAdminChange(u, i, st) ==
    /\ i \in DOMAIN donations
    /\ IF IsStaffActor(u)
         THEN /\ donations' = [donations EXCEPT ![i].payment_status = st]
              /\ last' = DonationResponse("donation_admin", u, 200, {i})
         ELSE /\ last' = DonationResponse("donation_admin", u, 302, {})
              /\ UNCHANGED donations
    /\ UNCHANGED <<authVars, contentVars, recordVars, now, walletVars, otpVars>>

(***************************************************************************)
(* Initial states.  The authorization specification starts from a          *)
(* populated store: alice created school S1, carol created school S2       *)
(* (SchoolCreateSerializer.create makes the creator admin and active       *)
(* member), carol joined S1 and created project P1 led by S1.  bob is a    *)
(* freshly registered user (role null), who may be platform staff.         *)
(***************************************************************************)
AuthInit ==
    /\ role = [u \in Users |-> CASE u = "alice" -> "school_admin"
                                 [] u = "carol" -> "teacher"
                                 [] OTHER -> NULL]
    /\ \E b \in BOOLEAN : is_staff = [u \in Users |-> u = "bob" /\ b]
    /\ memberships = [u \in Users |->
                        CASE u = "alice" -> <<[school |-> "S1", is_active |-> TRUE]>>
                          [] u = "carol" -> <<[school |-> "S2", is_active |-> TRUE],
                                              [school |-> "S1", is_active |-> TRUE]>>
                          [] OTHER -> << >>]
    /\ schools = [s \in Schools |->
                    CASE s = "S1" -> [admin |-> "alice", name |-> "n0", city |-> "k0"]
                      [] s = "S2" -> [admin |-> "carol", name |-> "n0", city |-> "k1"]
                      [] OTHER -> NoSchool]
    /\ projects = [p \in Projects |->
                    [created_by |-> "carol", lead_school |-> "S1", title |-> "n0",
                     status |-> "draft"]]
    /\ participations = [ps \in Projects \X Schools |-> "none"]
    /\ participants = [pu \in Projects \X Users |-> "none"]

DonationInit == donations = << >>

WalletInit ==
    /\ wallet_users = {}
    /\ wallet_nonces = {}
    /\ next_nonce = 1
    /\ verify_req = [r \in Requests |-> IdleVerify]
    /\ consumed = {}
    /\ wallet_logins = << >>

OtpInit ==
    /\ otps = << >>
    /\ otp_req = [r \in Requests |-> IdleOtp]
    /\ otp_logins = << >>
    /\ email_users = {}

ContentInit ==
    /\ updates = << >>
    /\ classes = {<<"S1", "c1">>}
    /\ profiles = {}
    /\ participant_class = [pu \in Projects \X Users |-> NULL]
    /\ goals = [g \in GoalIds |-> NoRow]
    /\ files = [f \in FileIds |-> NoRow]

RecordInit ==
    /\ certificates = [k \in CertIds |-> NoCert]
    /\ user_emails = << >>

Init ==
    /\ AuthInit
    /\ ContentInit
    /\ RecordInit
    /\ DonationInit
    /\ WalletInit
    /\ OtpInit
    /\ now = 0
    /\ last = NoRequest

\* the users that change their own profile, join and leave schools
Movers == {"bob"}
\* the is_active values a participant is created with
ParticipantFlags == {TRUE}
\* the school of the class a participant is created with
ParticipantClassSchools == {"S1"}

\* Project authorization: memberships, roles, participation and the requests on a project
Next ==
    \/ \E u \in Movers, m \in ProbeMethods, o \in ProbeObjects : Authorize(u, m, o)
    \/ \E u \in Movers, r \in RoleValues : UserProfileUpdate(u, r)
    \/ \E u \in Movers, s \in InitialSchools : SchoolJoin(u, s)
    \/ \E actor \in Users, u \in Movers, s \in InitialSchools, a \in BOOLEAN :
          MembershipPartialUpdate(actor, u, s, a)
    \/ \E u \in Movers, p \in Projects : ProjectJoin(u, p)
    \/ \E actor \in Users, p \in Projects, st \in Movers, a \in ParticipantFlags,
          cs \in ParticipantClassSchools : ProjectParticipantCreate(actor, p, st, a, cs)
    \/ \E u \in Users, p \in Projects, t \in Names : ProjectUpdate(u, p, t)

Spec == Init /\ [][Next]_vars

\* School administration: memberships, roles and the requests on a school
NextSchool ==
    \/ \E u \in Movers, r \in RoleValues : UserProfileUpdate(u, r)
    \/ \E u \in Movers, s \in InitialSchools : SchoolJoin(u, s)
    \/ \E actor \in Users, u \in Movers, s \in InitialSchools, a \in BOOLEAN :
          MembershipPartialUpdate(actor, u, s, a)
    \/ \E u \in Users, m \in {"PUT", "PATCH"}, s \in InitialSchools, n \in Names :
          SchoolUpdate(u, m, s, n)
    \/ \E u \in Users, s \in InitialSchools : IsSchoolAdminCall(u, s)

SpecSchool == Init /\ [][NextSchool]_vars

\* Project content: progress uploads by the members of the schools
NextContent ==
    \/ \E u \in Movers, r \in RoleValues : UserProfileUpdate(u, r)
    \/ \E u \in Movers, s \in InitialSchools : SchoolJoin(u, s)
    \/ \E actor \in Users, u \in Movers, s \in InitialSchools, a \in BOOLEAN :
          MembershipPartialUpdate(actor, u, s, a)
    \/ \E actor \in Users, p \in Projects, st \in Movers, a \in ParticipantFlags,
          cs \in ParticipantClassSchools : ProjectParticipantCreate(actor, p, st, a, cs)
    \/ \E u \in Movers, p \in Projects : ProjectUpdateCreate(u, p)

SpecContent == Init /\ [][NextContent]_vars

\* the schools the member requests address: one that exists from the start and the created one
MemberSchools == {"S1", "S3"}

\* School creation, joining and the member endpoints
NextMembers ==
    \/ \E u \in Movers, r \in RoleValues : UserProfileUpdate(u, r)
    \/ \E u \in Movers, cr \in CreatorRoles, n \in Names : SchoolCreate(u, cr, n, "k0")
    \/ \E u \in Movers, s \in MemberSchools : SchoolJoin(u, s)
    \/ \E u \in Movers, s \in MemberSchools, b \in BOOLEAN : MembershipPartialUpdate(u, u, s, b)
    \/ \E u \in Movers, s \in MemberSchools : MembershipDestroy(u, u, s)
    \/ \E a \in Users, u \in Movers, s \in MemberSchools, r \in CreatorRoles, c \in {NULL, "c1"} :
          AddUserToSchool(a, s, u, r, c)
    \/ \E a \in Users, u \in Movers, s \in MemberSchools, c \in ClassNames :
          AddStudentToSchool(a, s, u, c)
    \/ \E a \in Users, u \in Movers, s \in MemberSchools, cs \in {{}, {"c1"}} :
          AddTeacherToSchool(a, s, u, cs)

SpecMembers == Init /\ [][NextMembers]_vars

\* the users whose participation is managed
ParticipantStudents == {"carol"}

\* The participants of a project: the nested route projects/{project_pk}/participants
NextParticipants ==
    \/ \E u \in Movers, r \in RoleValues : UserProfileUpdate(u, r)
    \/ \E u \in Movers, s \in InitialSchools : SchoolJoin(u, s)
    \/ \E u \in Movers, p \in Projects : ProjectJoin(u, p)
    \/ \E actor \in Users, p \in Projects, st \in ParticipantStudents, a \in BOOLEAN,
          cs \in InitialSchools : ProjectParticipantCreate(actor, p, st, a, cs)
    \/ \E actor \in Users, p \in Projects, st \in ParticipantStudents, a \in BOOLEAN :
          ProjectParticipantPartialUpdate(actor, p, st, a)
    \/ \E actor \in Users, p \in Projects, st \in ParticipantStudents :
          ProjectParticipantDestroy(actor, p, st)

SpecParticipants == Init /\ [][NextParticipants]_vars

\* The goals and files of a project: projects/{project_pk}/goals and .../files
NextStructure ==
    \/ \E u \in Movers, r \in RoleValues : UserProfileUpdate(u, r)
    \/ \E u \in Movers, s \in InitialSchools : SchoolJoin(u, s)
    \/ \E u \in Movers, p \in Projects : ProjectJoin(u, p)
    \/ \E a \in Users, p \in Projects : ProjectGoalCreate(a, p)
    \/ \E a \in Users, p \in Projects, g \in GoalIds, d \in BOOLEAN :
          ProjectGoalPartialUpdate(a, p, g, d)
    \/ \E a \in Users, p \in Projects, g \in GoalIds : ProjectGoalDestroy(a, p, g)
    \/ \E a \in Users, p \in Projects, d \in Names : ProjectFileCreate(a, p, d)
    \/ \E a \in Users, p \in Projects, f \in FileIds, d \in Names :
          ProjectFilePartialUpdate(a, p, f, d)
    \/ \E a \in Users, p \in Projects, f \in FileIds : ProjectFileDestroy(a, p, f)

SpecStructure == Init /\ [][NextStructure]_vars

\* GET /projects/{project_pk}/goals/: a list route runs has_permission only
ProjectGoalList(u, p) ==
    /\ last' = Response("goal_list", u, "GET", ProjectObj(p),
                        IF CanManageProjectStructure_has_permission(u, "GET") THEN 200 ELSE 403)
    /\ UNCHANGED <<authVars, contentVars, donationVars, recordVars, now, walletVars, otpVars>>

\* GET /projects/{project_pk}/files/: a list route runs has_permission only
ProjectFileList(u, p) ==
    /\ last' = Response("file_list", u, "GET", ProjectObj(p),
                        IF CanManageProjectStructure_has_permission(u, "GET") THEN 200 ELSE 403)
    /\ UNCHANGED <<authVars, contentVars, donationVars, recordVars, now, walletVars, otpVars>>

\* GET /projects/{project_pk}/updates/: a list route runs has_permission only
ProjectUpdateList(u, p) ==
    /\ last' = Response("update_list", u, "GET", ProjectObj(p),
                        IF CanUploadProjectProgress_has_permission(u, "GET") THEN 200 ELSE 403)
    /\ UNCHANGED <<authVars, contentVars, donationVars, recordVars, now, walletVars, otpVars>>

\* GET /projects/{project_pk}/participants/: a list route runs has_permission only
ProjectParticipantList(u, p) ==
    /\ last' = Response("participant_list", u, "GET", ProjectObj(p),
                        IF CanManageProjectParticipants_has_permission(u, "GET") THEN 200 ELSE 403)
    /\ UNCHANGED <<authVars, contentVars, donationVars, recordVars, now, walletVars, otpVars>>

\* Read requests on the nested project routes
NextReads ==
    \/ \E u \in Movers, r \in RoleValues : UserProfileUpdate(u, r)
    \/ \E u \in Movers, s \in InitialSchools : SchoolJoin(u, s)
    \/ \E u \in Movers, s \in InitialSchools, b \in BOOLEAN : MembershipPartialUpdate(u, u, s, b)
    \/ \E u \in Actors, p \in Projects : ProjectGoalList(u, p)
    \/ \E u \in Actors, p \in Projects : ProjectFileList(u, p)
    \/ \E u \in Actors, p \in Projects : ProjectUpdateList(u, p)
    \/ \E u \in Actors, p \in Projects : ProjectParticipantList(u, p)

SpecReads == Init /\ [][NextReads]_vars

\* Project status: the project detail route with a status in the body
NextStatus ==
    \/ \E u \in Movers, r \in RoleValues : UserProfileUpdate(u, r)
    \/ \E u \in Movers, s \in InitialSchools : SchoolJoin(u, s)
    \/ \E u \in Users, p \in Projects, st \in STATUS_CHOICES \cup {BadStatus} :
          ProjectPartialUpdateStatus(u, p, st)

SpecStatus == Init /\ [][NextStatus]_vars

\* addresses sent to registration: two spellings of the domain for two of them
RegEmails == {"a@x.org", "a@X.ORG", "b@x.org", "b@X.ORG", "c@x.org"}

\* UserManager.normalize_email, called by create_user: the domain part in lower case
normalize_email(e) ==
    CASE e = "a@X.ORG" -> "a@x.org"
      [] e = "b@X.ORG" -> "b@x.org"
      [] OTHER -> e

\* User.objects.filter(email=value).exists(): exact match on the stored value
EmailExists(value) == \E i \in DOMAIN user_emails : user_emails[i] = value

EmailObj(e) == [kind |-> "email", id |-> e]

\* POST /auth/register/ with a payload valid in every field but, possibly, the email:
\* validate_email, then create_user under the unique constraint of User.email
UserRegistration(e) ==
    /\ IF EmailExists(e)
       THEN /\ last' = Response("register", Anonymous, "POST", EmailObj(e), 400)
            /\ UNCHANGED user_emails
       ELSE IF EmailExists(normalize_email(e))
       THEN /\ last' = Response("register", Anonymous, "POST", EmailObj(e), 500)
            /\ UNCHANGED user_emails
       ELSE /\ user_emails' = Append(user_emails, normalize_email(e))
            /\ last' = Response("register", Anonymous, "POST", EmailObj(e), 201)
    /\ UNCHANGED <<authVars, contentVars, donationVars, certificates, now, walletVars, otpVars>>

NextRegistration == \E e \in RegEmails : UserRegistration(e)

SpecRegistration == Init /\ [][NextRegistration]_vars

\* School participation in a project: join, the project-participations route and
\* the project update it gives access to
NextParticipation ==
    \/ \E u \in Movers, r \in RoleValues : UserProfileUpdate(u, r)
    \/ \E u \in Movers, s \in InitialSchools : SchoolJoin(u, s)
    \/ \E u \in Movers, s \in InitialSchools, b \in BOOLEAN : MembershipPartialUpdate(u, u, s, b)
    \/ \E u \in Users, p \in Projects : ProjectJoin(u, p)
    \/ \E a \in Actors, p \in Projects, s \in InitialSchools, b \in BOOLEAN :
          ProjectParticipationPartialUpdate(a, p, s, b)
    \/ \E u \in Movers, p \in Projects, t \in Names : ProjectUpdate(u, p, t)

SpecParticipation == Init /\ [][NextParticipation]_vars

\* Certificates: the certificates routes, called by the users and by anonymous clients
NextCertificates ==
    \/ \E u \in Actors, r \in {"bob"}, i \in {"alice", "bob"}, t \in Names :
          CertificateCreate(u, r, i, t)
    \/ \E u \in Actors, k \in CertIds : CertificateRetrieve(u, k)
    \/ \E u \in Actors, k \in CertIds, t \in Names : CertificatePartialUpdate(u, k, t)
    \/ \E u \in Actors, k \in CertIds : CertificateDestroy(u, k)
    \/ \E u \in Actors, k \in CertIds : download_certificate(u, k)

SpecCertificates == Init /\ [][NextCertificates]_vars

\* Wallet accounts and WalletLoginView
NextWallet ==
    \/ \E a \in WalletAddresses \cup {NoAddress}, r \in {"student", "principal"} :
          WalletRegister(a, r)
    \/ \E a \in WalletAddresses : IssueNonce(a)
    \/ \E a \in WalletAddresses \cup {NoAddress}, sig \in Signatures \cup {NoSignature},
          m \in Messages \cup {NoMessage} : WalletLogin(a, sig, m)

SpecWallet == Init /\ [][NextWallet]_vars

\* Nonces and concurrent calls of verify_wallet_signature
NextNonce ==
    \/ \E a \in WalletAddresses : IssueNonce(a)
    \/ \E r \in Requests, a \in WalletAddresses, m \in Messages, p \in Purposes :
          \E sig \in {Sign(k, m) : k \in Signers} \cup {Malformed} : VerifyLoad(r, a, m, sig, p)
    \/ \E r \in Requests : VerifyDelete(r)
    \/ Tick

SpecNonce == Init /\ [][NextNonce]_vars

\* Email codes and concurrent requests of EmailLoginVerifyView
NextOtp ==
    \/ \E e \in Emails \cup {Empty} : EmailLoginRequest(e)
    \/ \E r \in Requests, e \in Emails \cup {Empty}, c \in Codes \cup {Empty} :
          EmailLoginVerifyQuery(r, e, c)
    \/ \E r \in Requests : EmailLoginVerifySave(r)
    \/ Tick

SpecOtp == Init /\ [][NextOtp]_vars

\* Donations, their payment status and the reads of DonationViewSet
NextDonation ==
    \/ \E u \in DonationActors : DonationCreate(u)
    \/ \E u \in DonationActors, f \in PaymentStatuses \cup {NULL} : DonationList(u, f)
    \/ \E u \in DonationActors, i \in 1..MaxDonations : DonationRetrieve(u, i)
    \/ \E u \in DonationActors, i \in 1..MaxDonations, st \in PaymentStatuses :
          DonationAdminChange(u, i, st)

SpecDonation == Init /\ [][NextDonation]_vars

\* Donations and the write routes a ModelViewSet adds to DonationViewSet
NextDonationWrites ==
    \/ \E u \in DonationActors : DonationCreate(u)
    \/ \E u \in DonationActors, i \in 1..MaxDonations, st \in PaymentStatuses :
          DonationAdminChange(u, i, st)
    \/ \E u \in DonationActors, i \in 1..MaxDonations, n \in Names :
          DonationPartialUpdate(u, i, n)
    \/ \E u \in DonationActors, i \in 1..MaxDonations : DonationDestroy(u, i)

SpecDonationWrites == Init /\ [][NextDonationWrites]_vars

(***************************************************************************)
(* Claims                                                                  *)
(***************************************************************************)
AllMethods == SAFE_METHODS \cup WriteMethods \cup {"POST"}

\* C1: staff override.  For every permission class, every method and every
\* resource, an actor with is_staff = true is allowed, whatever the actor's
\* role, memberships or ownership (in particular the update of a Project the
\* actor neither created nor is related to, and a write guarded by the
\* owner-or-read-only rule).
C1_StaffOverride ==
    \A u \in Users : is_staff[u] =>
        \A o \in ProbeObjects : \A m \in AllMethods : \A cls \in ClassesFor(o) :
            Decide(cls, u, m, o)

\* the other schools of project p in which u is an active member
OtherActiveProjectSchools(u, p, s) ==
    (ActiveSchoolsOf(u) \ {s}) \cap (ParticipatingSchools(p) \cup {projects[p].lead_school})

HasInactiveRow(u, s) ==
    MembershipIndex(u, s) # 0 /\ ~memberships[u][MembershipIndex(u, s)].is_active

\* C2: a deactivated membership confers nothing.  For every non-staff user u
\* and school S with an inactive SchoolMembership row (u, S), u not the admin
\* of S and not the creator of the resource, every membership based check
\* that concerns S denies: school data access, and for a project led by S
\* or in which S participates (u being active in none of its other schools)
\* project write, project structure, project participants, progress upload;
\* and project join while u has no active membership.
C2_DeactivatedMembershipDenies ==
    \A u \in Users : \A s \in Schools :
        (~is_staff[u] /\ HasInactiveRow(u, s) /\ schools[s].admin # u) =>
            /\ ~Decide("CanViewSchoolData", u, "GET", SchoolObj(s))
            /\ ~can_user_access_school(u, s)
            /\ (ActiveSchoolsOf(u) = {} => ~CanJoinProject_has_permission(u, "POST"))
            /\ \A p \in Projects :
                 (/\ projects[p].created_by # u
                  /\ s \in ParticipatingSchools(p) \cup {projects[p].lead_school}
                  /\ OtherActiveProjectSchools(u, p, s) = {}) =>
                     /\ ~Decide("IsProjectOwnerOrParticipant", u, "PUT", ProjectObj(p))
                     /\ ~Decide("CanManageProjectStructure", u, "PUT", ProjectObj(p))
                     /\ ~Decide("CanManageProjectParticipants", u, "PUT", ProjectObj(p))
                     /\ ~Decide("CanUploadProjectProgress", u, "PUT", ProjectObj(p))

\* a non-staff teacher, active in the lead school of p, neither creator nor school admin
LeadSchoolTeacher(u, p) ==
    /\ ~is_staff[u]
    /\ role[u] = "teacher"
    /\ projects[p].lead_school \in ActiveSchoolsOf(u)
    /\ projects[p].created_by # u
    /\ schools[projects[p].lead_school].admin # u

\* C8: a non-staff teacher with an active membership in the lead school of a
\* project may update the project, even when somebody else created it and the
\* teacher is not the admin of the lead school.
C8_LeadSchoolTeacherMayUpdate ==
    \A u \in Users : \A p \in Projects :
        LeadSchoolTeacher(u, p) =>
            /\ ProjectWriteAllowed(u, "PUT", p)
            /\ ProjectWriteAllowed(u, "PATCH", p)
            /\ (last.op = "project_update" /\ last.actor = u /\ last.obj = ProjectObj(p)
                  => last.status = 200)

C8_Witness ==
    /\ LeadSchoolTeacher("bob", "P1")
    /\ ActiveSchoolsOf("bob") = {"S1"}
    /\ ParticipatingSchools("P1") = {}
    /\ last.op = "project_update" /\ last.actor = "bob" /\ last.status = 200
    /\ projects["P1"].title = "n1"

\* the actor is staff or the admin of school s
MaySchoolWrite(u, s) == u \in Users /\ (is_staff[u] \/ schools[s].admin = u)

\* C9: update, partial update and delete of a School succeed only when the
\* actor is staff or the school's admin; a mere active member (a teacher, say)
\* is denied and the school's fields stay as they were.
C9_SchoolWriteOnlyAdminOrStaff ==
    /\ [](/\ \A u \in Actors : \A s \in Schools : \A m \in WriteMethods :
                SchoolWriteAllowed(u, m, s) <=> MaySchoolWrite(u, s)
          /\ (last.op = "school_update" =>
                (last.status = 200 <=> MaySchoolWrite(last.actor, last.obj.id))))
    /\ [][\A s \in Schools : schools'[s] # schools[s] =>
              /\ last'.op = "school_update" /\ last'.obj = SchoolObj(s)
              /\ last'.status = 200
              /\ MaySchoolWrite(last'.actor, s)]_vars

C9_Witness ==
    /\ last.op = "school_update" /\ last.actor = "bob" /\ last.obj = SchoolObj("S1")
    /\ last.status = 403
    /\ ~is_staff["bob"] /\ role["bob"] = "teacher"
    /\ "S1" \in ActiveSchoolsOf("bob")
    /\ schools["S1"].name = "n0"

\* C3: wallet nonce single use.  After one successful wallet login, a later
\* wallet login request that replays the same wallet address, message and
\* signature fails and issues no tokens: no request is answered with tokens
\* twice.
C3_NoReplayedWalletLogin ==
    \A i, j \in DOMAIN wallet_logins :
        i # j => wallet_logins[i] # wallet_logins[j]

\* C4: atomic nonce consumption.  Of two concurrent verifications of the same
\* wallet address, message and signature against one stored nonce at most one
\* succeeds: no two calls have both returned True for the same nonce.
C4_AtMostOneVerificationPerNonce ==
    \A r1, r2 \in Requests :
        (r1 # r2 /\ verify_req[r1].pc = "done" /\ verify_req[r2].pc = "done")
            => verify_req[r1].nonce # verify_req[r2].nonce

C6_OtpSingleUse ==
    \A i \in DOMAIN otps :
        /\ otp_logins[i] <= 1
        /\ otp_logins[i] >= 1 => otps[i].is_used

\* C7: atomic OTP consumption.  Of two concurrent email-login verify requests
\* with the same (email, code), matched by one unused, unexpired row, at most
\* one succeeds and obtains tokens: no two requests have both been answered
\* with tokens for the same row.
C7_AtMostOneRequestPerOtp ==
    \A r1, r2 \in Requests :
        (r1 # r2 /\ otp_req[r1].pc = "done" /\ otp_req[r2].pc = "done")
            => otp_req[r1].otp # otp_req[r2].otp

\* C10: donation visibility.  For a requester who is not staff (anonymous
\* included) the list and retrieve results hold only donations whose
\* payment_status is 'completed'; a donation just created through the API is
\* 'pending' and no non-staff requester sees it; staff see all donations.
C10_DonationVisibility ==
    /\ \A u \in DonationActors :
          /\ ~IsStaffActor(u) =>
                \A i \in DonationQueryset(u) : donations[i].payment_status = "completed"
          /\ IsStaffActor(u) => DonationQueryset(u) = DOMAIN donations
    /\ last.op \in {"donation_list", "donation_retrieve"} =>
          /\ last.result \subseteq DOMAIN donations
          /\ ~IsStaffActor(last.actor) =>
                \A i \in last.result : donations[i].payment_status = "completed"
    /\ last.op = "donation_create" =>
          \A i \in last.result :
              /\ donations[i].payment_status = "pending"
              /\ \A u \in DonationActors : ~IsStaffActor(u) => i \notin DonationQueryset(u)

C10_Witness ==
    /\ last.op = "donation_list" /\ last.actor = Anonymous
    /\ last.result # {} /\ last.result # DOMAIN donations
    /\ \E i \in DOMAIN donations : donations[i].payment_status = "pending"

\* the schools of project p: the lead school and the participating schools
ProjectSchools(p) == ParticipatingSchools(p) \cup {projects[p].lead_school}

\* C11: a non-staff student who is an active member of a school of the
\* project but has no active ProjectParticipant row is denied the upload of a
\* ProjectUpdate (no row is created); a teacher or school admin with the same
\* school relationship is allowed without a ProjectParticipant row.
C11_StudentUploadNeedsParticipant ==
    (last.op = "update_create" /\ ~is_staff[last.actor]
       /\ ActiveSchoolsOf(last.actor) \cap ProjectSchools(last.obj.id) # {}
       /\ participants[<<last.obj.id, last.actor>>] # "active") =>
          /\ role[last.actor] = "student" => last.status = 403
          /\ role[last.actor] \in {"teacher", "school_admin"} => last.status = 201

\* C12: for every (actor, school) pair the school-admin check is_school_admin
\* returns true iff school.admin = actor, whatever SchoolMembership rows exist
\* and whatever the other attributes of the actor are.
C12_IsSchoolAdminIffAdmin ==
    last.op = "is_school_admin" =>
        (last.allow[1] <=> schools[last.obj.id].admin = last.actor)

RowsOf(u, s) == {i \in DOMAIN memberships[u] : memberships[u][i].school = s}

\* the operations that join or add a user to a school
JoinOrAddOps == {"school_join", "add_user", "add_teacher", "add_student"}

\* the user a join or add request is about
Joiner(r) == IF r.op = "school_join" THEN r.actor ELSE r.target

\* C14: under school creation, school join and the add_user / add_teacher /
\* add_student endpoints there is at most one SchoolMembership row per (user, school),
\* and a join or add that succeeds for a user whose row is inactive reactivates that
\* row instead of inserting a second one.
C14_OneMembershipRowPerUserSchool ==
    /\ [](\A u \in Users, s \in Schools : Cardinality(RowsOf(u, s)) <= 1)
    /\ [][(last'.op \in JoinOrAddOps /\ last'.status = 200
             /\ HasInactiveRow(Joiner(last'), last'.obj.id)) =>
                /\ Len(memberships'[Joiner(last')]) = Len(memberships[Joiner(last')])
                /\ memberships'[Joiner(last')][MembershipIndex(Joiner(last'), last'.obj.id)].is_active
         ]_vars

\* a school was created, and an add endpoint succeeded on a row that is not the
\* newest of its user: the row was there before, inactive, and was reactivated
C14_Witness ==
    /\ schools["S3"] # NoSchool
    /\ last.op = "add_user" /\ last.status = 200
    /\ Len(memberships[last.target]) = 2
    /\ MembershipIndex(last.target, last.obj.id) = 1
    /\ \A i \in DOMAIN memberships[last.target] : memberships[last.target][i].is_active

\* C15: memberships are never hard-deleted.  Once a SchoolMembership row exists for
\* (user, school), a row for that pair exists in every later state; only its
\* is_active flag changes.
C15_MembershipRowsPersist ==
    [][\A u \in Users, s \in Schools :
          RowsOf(u, s) # {} =>
              \E i \in DOMAIN memberships'[u] : memberships'[u][i].school = s]_vars

\* C16: a non-staff user whose role is null is denied every write unless they are
\* the creator of the resource or the admin of its school.  Here: a role-less
\* non-staff user who neither created the project nor administers one of its
\* schools cannot modify it, whatever their memberships.
C16_RolelessUserCannotWrite ==
    (last.op = "project_update" /\ ~is_staff[last.actor] /\ role[last.actor] = NULL
       /\ projects[last.obj.id].created_by # last.actor
       /\ \A s \in ProjectSchools(last.obj.id) : schools[s].admin # last.actor)
        => last.status = 403

\* C17: after every successful school creation by a user a, the new school's admin
\* is a and a holds exactly one SchoolMembership row in it, which is active; every
\* School row has exactly one admin, a user, in every reachable state.
C17_CreatorIsAdminAndMember ==
    /\ (last.op = "school_create" /\ last.status = 201) =>
          /\ schools[last.obj.id].admin = last.actor
          /\ Cardinality(RowsOf(last.actor, last.obj.id)) = 1
          /\ ActiveMember(last.actor, last.obj.id)
    /\ \A s \in Schools : schools[s] # NoSchool => schools[s].admin \in Users

\* a teacher created a school as "student": they are its admin and an active member
C17_Witness ==
    /\ last.op = "school_create" /\ last.status = 201
    /\ role[last.actor] = "student"
    /\ schools["S3"].admin = last.actor
    /\ ActiveMember(last.actor, "S3")

\* the endpoints that add a member to a school
AddOps == {"add_user", "add_teacher", "add_student"}

\* C18: a non-staff actor can add a member to school S through add_user, add_teacher
\* or add_student exactly when their role is school_admin or super_admin and they are
\* S.admin: such an actor is not refused, and every other non-staff actor is answered
\* 403 with no membership row created or reactivated.
C18_OnlyAdminAddsMembers ==
    [][(last'.op \in AddOps /\ ~is_staff[last'.actor] /\ schools[last'.obj.id] # NoSchool) =>
          IF role[last'.actor] \in {"school_admin", "super_admin"}
             /\ schools[last'.obj.id].admin = last'.actor
          THEN last'.status # 403
          ELSE last'.status = 403 /\ memberships' = memberships]_vars

\* the actor's only relationship to project p is active membership in a
\* participating school that is not the lead school
ParticipatingOnly(u, p) ==
    /\ ~is_staff[u]
    /\ role[u] \in {"teacher", "school_admin"}
    /\ projects[p].created_by # u
    /\ projects[p].lead_school \notin ActiveSchoolsOf(u)
    /\ ActiveSchoolsOf(u) \cap ParticipatingSchools(p) # {}

\* C19: a non-staff teacher or school admin whose only relationship to a project is
\* active membership in a participating (non-lead) school can change or remove only
\* the participants of their own school: a PATCH or DELETE of a participant row
\* succeeds for them exactly when the row's class belongs to one of their schools.
C19_ParticipatingSchoolOwnParticipantsOnly ==
    [][(last'.op \in {"participant_update", "participant_destroy"}
          /\ ParticipatingOnly(last'.actor, last'.obj.id[1])
          /\ participants[last'.obj.id] # "none") =>
             (last'.status \in {200, 204} <=>
                 participant_class[last'.obj.id] \in ActiveSchoolsOf(last'.actor))]_vars

\* the requests that create, change or delete a goal or a file of a project
StructureOps ==
    {"goal_create", "goal_update", "goal_destroy", "file_create", "file_update", "file_destroy"}

\* the project a structure request addresses
TargetProject(r) == IF r.obj.kind = "project" THEN r.obj.id ELSE r.obj.project

\* C20: a non-staff non-creator is allowed to create, update and delete project goals
\* and files if and only if their role is teacher, school_admin or super_admin and
\* they hold an active membership in the lead school or a participating school of
\* the project (a super_admin of the lead school is allowed, a teacher with no
\* membership in the project's schools is denied).
C20_StructureRoleAndMembership ==
    (last.op \in StructureOps /\ ~is_staff[last.actor] /\ last.status # 404
       /\ projects[TargetProject(last)].created_by # last.actor) =>
          (last.status \in {200, 201, 204} <=>
              /\ role[last.actor] \in {"teacher", "school_admin", "super_admin"}
              /\ ActiveSchoolsOf(last.actor) \cap ProjectSchools(TargetProject(last)) # {})

\* C21: a non-staff user who is a certificate's recipient and not its issuer can read
\* it but never update or delete it through any certificate endpoint; the user who
\* issued a certificate can read and write it.
C21_CertificateRecipientReadOnly ==
    [][(last'.op \in {"certificate_retrieve", "certificate_download",
                      "certificate_update", "certificate_destroy"}
          /\ last'.actor \in Users /\ ~is_staff[last'.actor]
          /\ certificates[last'.obj.id] # NoCert) =>
             /\ (certificates[last'.obj.id].recipient = last'.actor
                   /\ certificates[last'.obj.id].issued_by # last'.actor) =>
                      IF last'.method = "GET" THEN last'.status = 200
                      ELSE last'.status \notin {200, 204}
             /\ certificates[last'.obj.id].issued_by = last'.actor =>
                   last'.status \in {200, 204}]_vars

\* a non-staff non-creator whose only link to project p is an active membership in a
\* school, not the lead school, whose ProjectParticipation row is inactive
OnlyInactiveParticipation(u, p) ==
    /\ ~is_staff[u]
    /\ projects[p].created_by # u
    /\ projects[p].lead_school \notin ActiveSchoolsOf(u)
    /\ participants[<<p, u>>] = "none"
    /\ \A s \in ActiveSchoolsOf(u) : participations[<<p, s>>] # "active"
    /\ \E s \in ActiveSchoolsOf(u) : participations[<<p, s>>] = "inactive"

\* C22: only active participation confers a relationship.  A non-staff non-creator
\* whose only link to P is an active membership in a school S with an inactive
\* ProjectParticipation row (S not the lead school) is denied every write on P and on
\* P's goals, files, participants and updates.
C22_InactiveParticipationDenies ==
    \A u \in Users, p \in Projects :
        OnlyInactiveParticipation(u, p) =>
            /\ ~ProjectWriteAllowed(u, "PUT", p)
            /\ ~Decide("CanManageProjectStructure", u, "PUT", ProjectObj(p))
            /\ ~Decide("CanManageProjectParticipants", u, "PUT", ProjectObj(p))
            /\ ~Decide("CanUploadProjectProgress", u, "PUT", ProjectObj(p))
            /\ (last.op = "project_update" /\ last.actor = u /\ last.obj = ProjectObj(p))
                  => last.status = 403

\* the school a join acts for: the actor's first active membership
JoinSchool(u) == FirstActiveSchool(u)

\* C26: a join by a non-staff user needs an active SchoolMembership; a successful
\* join leaves the row for (P, actor's school) active, also when that row existed and
\* was inactive, and changes no other row; a refused join (no active membership, or the
\* school already participates actively) leaves every ProjectParticipation row unchanged.
C26_JoinRows ==
    [][(last'.op = "project_join" /\ last'.actor \in Users /\ ~is_staff[last'.actor]) =>
          LET u == last'.actor
              p == last'.obj.id
          IN  /\ last'.status = 200 <=>
                    /\ ActiveSchoolsOf(u) # {}
                    /\ participations[<<p, JoinSchool(u)>>] # "active"
              /\ last'.status = 200 =>
                    /\ participations'[<<p, JoinSchool(u)>>] = "active"
                    /\ \A k \in DOMAIN participations :
                          k # <<p, JoinSchool(u)>> => participations'[k] = participations[k]
              /\ last'.status # 200 => participations' = participations]_vars

C26_Witness ==
    /\ last.op = "project_join"
    /\ last.status = 200
    /\ ~is_staff[last.actor]
    /\ Cardinality(ActiveSchoolsOf(last.actor)) > 1
    /\ participations[<<last.obj.id, JoinSchool(last.actor)>>] = "active"
    /\ \E s \in ActiveSchoolsOf(last.actor) : participations[<<last.obj.id, s>>] = "inactive"

ReadOps == {"goal_list", "file_list", "update_list", "participant_list"}

\* C23: every authenticated actor, whatever their role and memberships, is allowed
\* every safe (read) request on project goals, files, updates and participants.
C23_ReadsOpenToAuthenticated ==
    (last.op \in ReadOps /\ last.actor \in Users) => last.status = 200

\* the lifecycle order: one step forward at a time, cancellation from any state that
\* is not final
StatusSteps ==
    {<<"draft", "pending_approval">>, <<"pending_approval", "active">>,
     <<"active", "completed">>, <<"active", "cancelled">>,
     <<"draft", "cancelled">>, <<"pending_approval", "cancelled">>}

\* C24: a project's status starts at draft and changes only along
\* draft -> pending_approval -> active -> completed or cancelled: it never moves
\* backwards, never skips a stage and never leaves completed or cancelled.
C24_StatusLifecycle ==
    [][\A p \in Projects :
          projects'[p].status # projects[p].status =>
             <<projects[p].status, projects'[p].status>> \in StatusSteps]_vars

\* the address belongs to a user: a row holds it, the domain compared without case
EmailBelongsToUser(e) ==
    \E i \in DOMAIN user_emails : normalize_email(user_emails[i]) = normalize_email(e)

\* C25: registration with a fresh email creates exactly one user and answers 201;
\* registration with an email that already belongs to a user answers 400 and creates
\* no user; no two users ever share an email.
C25_RegistrationUniqueEmail ==
    /\ [](\A i, j \in DOMAIN user_emails : user_emails[i] = user_emails[j] => i = j)
    /\ [][last'.op = "register" =>
            IF EmailBelongsToUser(last'.obj.id)
            THEN last'.status = 400 /\ user_emails' = user_emails
            ELSE /\ last'.status = 201
                 /\ Len(user_emails') = Len(user_emails) + 1
                 /\ user_emails'[Len(user_emails')] = normalize_email(last'.obj.id)]_vars

\* C27: no non-staff actor, authenticated or anonymous, can update or delete an
\* existing Donation: such a request is refused and leaves every donation row, its
\* payment_status included, as it was.
C27_DonationsImmutableForNonStaff ==
    [][(last'.op \in {"donation_update", "donation_destroy"}
          /\ ~IsStaffActor(last'.actor)) =>
             /\ last'.status \notin {200, 204}
             /\ donations' = donations]_vars

LowRoles == {"student", "donor", NULL}
HighRoles == {"teacher", "school_admin", "super_admin"}

\* C28: no request sent by a non-staff user raises that user's own role: a role of
\* student, donor or null does not become teacher, school_admin or super_admin
\* unless staff or a school admin performs the change.
C28_NoSelfPromotion ==
    [][\A u \in Users :
          (last'.actor = u /\ ~is_staff[u] /\ role[u] \in LowRoles) =>
              role'[u] \notin HighRoles]_vars

\* C29: whenever add_teacher_to_school or add_student_to_school answers with an
\* error (403, 404 or 400, 'Class not found in this school' and invalid assigned
\* class names included), the persisted state is the one before the request: no role
\* set, no membership created or reactivated, no profile created.
C29_ErrorLeavesStateUnchanged ==
    [][(last'.op \in {"add_teacher", "add_student"} /\ last'.status \in {400, 403, 404}) =>
          /\ role' = role
          /\ memberships' = memberships
          /\ profiles' = profiles]_vars

\* C30: in every reachable state the school recorded on each ProjectUpdate is the
\* lead school of the update's project or one of its participating schools, also
\* when the uploader is an active member of several schools.
C30_UpdateSchoolBelongsToProject ==
    \A i \in DOMAIN updates : updates[i].school \in ProjectSchools(updates[i].project)
====
